---- MODULE Spec2Model ----
(***************************************************************************)
(* Fixture upload: validation (file format, business rules, cross-row      *)
(* rules) and transactional persistence of rounds, games and grade         *)
(* attributes.  Modelled from the Postgres variant of the handler          *)
(* (src/unnamed/part_001) and of the repository layer                      *)
(* (src/unnamed/part_000).                                                 *)
(*                                                                         *)
(* Strings are sequences of one-character strings, so that trimming and    *)
(* the '-'-joined composite keys are computed as the code computes them.   *)
(***************************************************************************)
EXTENDS Integers, Sequences, FiniteSets, TLC

VARIABLES
    dbGrades,        \* table grades: set of [id, code, seasonID, noOfRounds, startDate]
    dbRounds,        \* table rounds (committed): set of [id, gradeID, sequenceNo, provisionalDate]
    dbGames,         \* table games (committed): sequence of [id, roundID, homeTeamID, awayTeamID]
    gamesIdUnique,   \* whether the schema declares games.id unique (not given by the source)
    pc,              \* position of the running operation
    upload,          \* the rows the decoder yields for the uploaded file
    fixtureRows,     \* FixtureRow[] handed to business-rule validation
    context,         \* ValidationContext
    errors,          \* ValidationError[] collected by the validation step under way
    today,           \* the clock value read by the validation under way
    validationErrors,\* what validateS3File returns as validationErrors (<<>> for null)
    roundsParams,    \* parseFixtureFile's result: sequence of [gradeID, rounds], in key order
    lookups,         \* [hasFixtureByGradeIDs, existingGames] read ahead of persist
    gradeAttributes, \* calculateGradeAttributes' result: gradeID -> [noOfRounds, startDate]
    txOpen,          \* the client's connection is inside a transaction
    txRounds,        \* table rounds as the open transaction sees it
    txGames,         \* table games as the open transaction sees it
    txGrades,        \* table grades as the open transaction sees it
    pos,             \* persist's loops: [g, r, k] = grade, round and game under way
    roundID,         \* persistRound's roundID
    collected,       \* [gameIDs, teamIDs]: allGameIDs and allTeamIDs
    persistError,    \* the statement that made persist fail, or "none"
    outcome,         \* how handle ended: "none", "rejected", "accepted" or "failed"
    events,          \* the events handle returned
    uploads,         \* number of handle calls started
    dbAtCall,        \* history: the committed tables when persist was called
    txWrites,        \* history: write statements the running handle call has executed
    committedParams, \* history: the roundsParams of the persist calls that committed
    calls            \* history: what the handle call under way has asked of its collaborators

storeVars == <<dbGrades, dbRounds, dbGames, gamesIdUnique>>
validationVars == <<upload, fixtureRows, context, errors, today, validationErrors>>
processVars == <<roundsParams, lookups, gradeAttributes>>
txVars == <<txOpen, txRounds, txGames, txGrades>>
persistVars == <<pos, roundID, collected, persistError, dbAtCall, txWrites>>
resultVars == <<outcome, events, uploads>>

historyVars == <<committedParams, calls>>

vars == <<storeVars, pc, validationVars, processVars, txVars, persistVars, resultVars,
          historyVars>>

\* ------------------------------------------------------------------------
\* Bounds of the model
\* ------------------------------------------------------------------------
MaxRows == 3         \* rows of an upload given to cross-row validation
MaxRound == 2        \* largest round number drawn for a row
MaxDay == 2          \* dates and clock values are days 1..MaxDay
MaxRawRows == 2      \* rows of an uploaded file
MaxRoundsPerGrade == 1   \* rounds a grade has in one roundsParams
MaxGamesPerRound == 1    \* games a round has in one roundsParams
MaxUploads == 2      \* handle calls in one behaviour

\* ------------------------------------------------------------------------
\* Strings
\* ------------------------------------------------------------------------
Range(s) == {s[i] : i \in 1..Len(s)}

RECURSIVE TrimStart(_)
TrimStart(s) == IF s # <<>> /\ Head(s) = " " THEN TrimStart(Tail(s)) ELSE s

RECURSIVE TrimEnd(_)
TrimEnd(s) ==
    IF s # <<>> /\ s[Len(s)] = " " THEN TrimEnd(SubSeq(s, 1, Len(s) - 1)) ELSE s

\* String.prototype.trim
Trim(s) == TrimEnd(TrimStart(s))

\* `${a}-${b}`
Dash(a, b) == a \o <<"-">> \o b

\* The value JavaScript's parseInt yields for a cell with no leading digits.
NaN == 0 - 999999

\* `${n}` for a number
NumberToString(n) == IF n = NaN THEN <<"N", "a", "N">> ELSE <<ToString(n)>>

Digits == {ToString(d) : d \in 0..9}
DigitVal(c) == CHOOSE d \in 0..9 : ToString(d) = c

\* the longest prefix of s made of digits
RECURSIVE LeadingDigits(_)
LeadingDigits(s) ==
    IF s # <<>> /\ Head(s) \in Digits THEN <<Head(s)>> \o LeadingDigits(Tail(s)) ELSE <<>>

RECURSIVE DigitsValue(_)
DigitsValue(ds) ==
    IF ds = <<>> THEN 0 ELSE 10 * DigitsValue(SubSeq(ds, 1, Len(ds) - 1)) + DigitVal(ds[Len(ds)])

Unsigned(s) == IF s # <<>> /\ Head(s) \in {"-", "+"} THEN Tail(s) ELSE s
IsNegative(s) == s # <<>> /\ Head(s) = "-"

\* parseInt(cell): leading white space is skipped, an optional sign and the
\* leading digits are read, what follows is ignored; NaN when no digit is read.
ParseInt(cell) ==
    LET s  == TrimStart(cell)
        ds == LeadingDigits(Unsigned(s))
    IN  IF ds = <<>> THEN NaN
        ELSE IF IsNegative(s) THEN 0 - DigitsValue(ds) ELSE DigitsValue(ds)

\* Number(cell) for a string, as the comparison `row.round < 1` converts it:
\* the whole trimmed string must be a decimal literal (the empty string is 0).
IsNumeric(cell) ==
    LET u    == Unsigned(Trim(cell))
        int  == LeadingDigits(u)
        rest == SubSeq(u, Len(int) + 1, Len(u))
        frac == IF rest # <<>> /\ Head(rest) = "." THEN LeadingDigits(Tail(rest)) ELSE <<>>
    IN  \/ Trim(cell) = <<>>
        \/ /\ rest = <<>>
           /\ int # <<>>
        \/ /\ rest # <<>>
           /\ Head(rest) = "."
           /\ Len(frac) = Len(rest) - 1
           /\ int \o frac # <<>>

\* Number(cell) < 1; a comparison with NaN is false
LessThanOne(cell) ==
    /\ IsNumeric(cell)
    /\ \/ IsNegative(Trim(cell))
       \/ DigitsValue(LeadingDigits(Unsigned(Trim(cell)))) = 0

\* !cell for a string
Falsy(cell) == cell = <<>>

\* ------------------------------------------------------------------------
\* Validation errors
\* ------------------------------------------------------------------------
\* A ValidationError: its type, the rule that raised it and the values its
\* message names.  `at` is the row that raised it (rowNumber for a format
\* error, the position in fixtureRows for the others).
Err(type, rule, at, gradeCode, teams, round, limit) ==
    [type |-> type, rule |-> rule, at |-> at, gradeCode |-> gradeCode,
     teams |-> teams, round |-> round, limit |-> limit]

FormatErr(rule, rowNumber) == Err("FILE_FORMAT", rule, rowNumber, <<>>, <<>>, 0, 0)

\* isValidDate: a date cell is 0 when it is missing or malformed, and
\* otherwise the day its DD/MM/YYYY text denotes
IsValidDate(date) == date # 0

\* the format errors of one row, in the order the checks run
RowFormatErrors(row, rowNumber) ==
       (IF Trim(row.gradeCode) = <<>> THEN <<FormatErr("GradeCodeRequired", rowNumber)>> ELSE <<>>)
    \o (IF Trim(row.homeTeam) = <<>> THEN <<FormatErr("HomeTeamRequired", rowNumber)>> ELSE <<>>)
    \o (IF Trim(row.awayTeam) = <<>> THEN <<FormatErr("AwayTeamRequired", rowNumber)>> ELSE <<>>)
    \o (IF ~IsValidDate(row.date) THEN <<FormatErr("InvalidDate", rowNumber)>> ELSE <<>>)
    \o (IF Falsy(row.round) \/ LessThanOne(row.round)
          THEN <<FormatErr("RoundNotPositive", rowNumber)>> ELSE <<>>)
    \o (IF row.homeTeam = row.awayTeam THEN <<FormatErr("SameTeam", rowNumber)>> ELSE <<>>)

\* the FixtureRow pushed for a row that raised no format error
ToFixtureRow(row) ==
    [gradeCode |-> Trim(row.gradeCode), homeTeam |-> Trim(row.homeTeam),
     awayTeam |-> Trim(row.awayTeam), date |-> row.date, round |-> ParseInt(row.round)]

\* parseAndValidateFile over the decoded rows; row i has rowNumber i + 1
RECURSIVE ParseAndValidateFile(_, _)
ParseAndValidateFile(rows, n) ==
    IF n = 0 THEN [fixtureRows |-> <<>>, formatErrors |-> <<>>]
    ELSE LET before == ParseAndValidateFile(rows, n - 1)
             errs   == RowFormatErrors(rows[n], n + 1)
         IN  [fixtureRows  |-> IF errs = <<>>
                                 THEN Append(before.fixtureRows, ToFixtureRow(rows[n]))
                                 ELSE before.fixtureRows,
              formatErrors |-> before.formatErrors \o errs]

\* ------------------------------------------------------------------------
\* Validation context: the three lookups of loadValidationContext
\* ------------------------------------------------------------------------
\* table teams (never written by the upload): teams L, T, B-C, C, D, B and
\* C-D of grade "A", teams L and T of grade "g2"
DbTeams ==
    {[id |-> <<"t", "1">>, name |-> <<"L">>, gradeID |-> <<"A">>],
     [id |-> <<"t", "2">>, name |-> <<"T">>, gradeID |-> <<"A">>],
     [id |-> <<"t", "3">>, name |-> <<"B", "-", "C">>, gradeID |-> <<"A">>],
     [id |-> <<"t", "4">>, name |-> <<"C">>, gradeID |-> <<"A">>],
     [id |-> <<"t", "5">>, name |-> <<"D">>, gradeID |-> <<"A">>],
     [id |-> <<"t", "6">>, name |-> <<"L">>, gradeID |-> <<"g", "2">>],
     [id |-> <<"t", "7">>, name |-> <<"T">>, gradeID |-> <<"g", "2">>],
     [id |-> <<"t", "8">>, name |-> <<"B">>, gradeID |-> <<"A">>],
     [id |-> <<"t", "9">>, name |-> <<"C", "-", "D">>, gradeID |-> <<"A">>]}

\* [...new Set(fixtureRows.map(r => r.gradeCode))]
UniqueGradeCodes(rows) == {rows[i].gradeCode : i \in 1..Len(rows)}

\* The value of a property an object does not have.
Undefined == 0 - 999998

\* obj[name] for a result row: rows carry the names of their columns
Property(obj, name) == IF name \in DOMAIN obj THEN obj[name] ELSE Undefined

\* the row SELECT g.* yields for a grade: result.rows is returned as it is
GradeRow(g) ==
    [id |-> g.id, code |-> g.code, season_id |-> g.seasonID,
     no_of_rounds |-> g.noOfRounds, start_date |-> g.startDate]

\* the row SELECT r.* yields for a round
RoundRow(r) ==
    [id |-> r.id, grade_id |-> r.gradeID, sequence_no |-> r.sequenceNo,
     provisional_date |-> r.provisionalDate]

\* gradeRepo.findBySeasonIDAndCodes: WHERE g.season_id = $1 AND g.code IN (...)
FindBySeasonIDAndCodes(grades, seasonID, gradeCodes) ==
    {GradeRow(g) : g \in {h \in grades : h.seasonID = seasonID /\ h.code \in gradeCodes}}

\* teamRepo.findBySeasonID: teams JOIN grades WHERE g.season_id = $1
FindTeamsBySeasonID(grades, seasonID) ==
    {t \in DbTeams : \E g \in grades : g.id = t.gradeID /\ g.seasonID = seasonID}

\* grades LEFT JOIN rounds LEFT JOIN games: does the grade own a game?
GradeHasGame(g, rounds, games) ==
    \E r \in rounds : r.gradeID = g.id /\ \E k \in 1..Len(games) : games[k].roundID = r.id

\* gradeRepo.hasFixturesByCode: GROUP BY g.code over the grades whose code is
\* in the list (of any season); one entry per code that names a grade
HasFixturesByCode(grades, rounds, games, gradeCodes) ==
    [c \in {g.code : g \in {h \in grades : h.code \in gradeCodes}} |->
        \E g \in grades : g.code = c /\ GradeHasGame(g, rounds, games)]

\* the lookups Promise.all issues, all three ahead of the first await
ContextLookups ==
    <<"gradeRepo.findBySeasonIDAndCodes", "teamRepo.findBySeasonID",
      "gradeRepo.hasFixturesByCode">>

\* the lookups processFixtureUpload's Promise.all issues
UploadLookups ==
    <<"gradeRepo.hasFixtures", "gameRepo.findByGradeIDs", "competitionRepo.findBySeasonID">>

\* loadValidationContext
LoadValidationContext(grades, rounds, games, seasonID, rows) ==
    [seasonID |-> seasonID,
     grades |-> FindBySeasonIDAndCodes(grades, seasonID, UniqueGradeCodes(rows)),
     teams |-> FindTeamsBySeasonID(grades, seasonID),
     existingFixtures |-> HasFixturesByCode(grades, rounds, games, UniqueGradeCodes(rows))]

\* map[key] read as a condition: a missing key is undefined, which is falsy
Truthy(map, key) == key \in DOMAIN map /\ map[key]

\* ------------------------------------------------------------------------
\* Business rules of one row: validateFixtureRow
\* ------------------------------------------------------------------------
\* a > b on numbers; undefined converts to NaN, and a comparison with NaN is false
Greater(a, b) == a \notin {NaN, Undefined} /\ b \notin {NaN, Undefined} /\ a > b

BusinessErr(rule, at, row, teams, limit) ==
    Err("BUSINESS_RULE", rule, at, row.gradeCode, teams, row.round, limit)

\* the grade context.grades.find(g => g.code === row.gradeCode) yields
\* (codes are unique within a season)
FindGrade(row, ctx) == CHOOSE g \in ctx.grades : g.code = row.gradeCode

\* mutant: the exemption reversed
PastDateViolatedWithFixtures(row, grade, ctx, now) ==
    row.date < now /\ Truthy(ctx.existingFixtures, grade.id)

PastDateViolated(row, grade, ctx, now) ==
    row.date < now /\ ~Truthy(ctx.existingFixtures, grade.id)

\* mutant: the teams are not filtered by grade
GradeTeamsOfAnyGrade(ctx, grade) == ctx.teams

\* context.teams.filter(t => t.gradeID === grade.id)
GradeTeams(ctx, grade) == {t \in ctx.teams : t.gradeID = grade.id}

\* the elements of context.teams that filter's callback is called on for one
\* row: context.teams is an array, and filter visits each of its elements
TeamsInspected(ctx) == Cardinality(ctx.teams)

\* the checks that follow the grade check, for the resolved grade
ResolvedRowErrors(row, at, grade, ctx, now) ==
    LET gradeTeams == GradeTeams(ctx, grade)
    IN     (IF ~\E t \in gradeTeams : t.name = row.homeTeam
             THEN <<BusinessErr("HomeTeamNotRegistered", at, row, <<row.homeTeam>>, 0)>>
             ELSE <<>>)
        \o (IF ~\E t \in gradeTeams : t.name = row.awayTeam
             THEN <<BusinessErr("AwayTeamNotRegistered", at, row, <<row.awayTeam>>, 0)>>
             ELSE <<>>)
        \o (IF Greater(row.round, Property(grade, "noOfRounds"))
             THEN <<BusinessErr("RoundExceedsMaximum", at, row, <<>>,
                                Property(grade, "noOfRounds"))>>
             ELSE <<>>)
        \o (IF PastDateViolated(row, grade, ctx, now)
             THEN <<BusinessErr("PastDate", at, row, <<>>, 0)>>
             ELSE <<>>)

\* mutant: the checks go on after a missing grade, reading the fields of undefined
ValidateFixtureRowNoReturn(row, at, ctx, now) ==
    IF ~\E g \in ctx.grades : g.code = row.gradeCode
    THEN    <<BusinessErr("GradeNotFound", at, row, <<>>, 0)>>
         \o ResolvedRowErrors(row, at, [id |-> <<"undefined">>], ctx, now)
    ELSE ResolvedRowErrors(row, at, FindGrade(row, ctx), ctx, now)

ValidateFixtureRow(row, at, ctx, now) ==
    IF ~\E g \in ctx.grades : g.code = row.gradeCode
    THEN <<BusinessErr("GradeNotFound", at, row, <<>>, 0)>>
    ELSE ResolvedRowErrors(row, at, FindGrade(row, ctx), ctx, now)

\* ------------------------------------------------------------------------
\* Cross-row rules: validateCrossRowRules
\* ------------------------------------------------------------------------
\* `${gradeCode}-${homeTeam}-${awayTeam}-${round}`
GameSignature(row) ==
    Dash(Dash(Dash(row.gradeCode, row.homeTeam), row.awayTeam), NumberToString(row.round))

\* `${gradeCode}-${team}`
TeamKey(row, team) == Dash(row.gradeCode, team)

IntegrityErr(rule, at, row, teams) ==
    Err("DATA_INTEGRITY", rule, at, row.gradeCode, teams, row.round, 0)

\* mutant: the signature is added to the set before the set is asked
IsDuplicateGameAfterAdd(gameSignatures, row) ==
    GameSignature(row) \in gameSignatures \cup {GameSignature(row)}

\* gameSignatures.has(gameSignature)
IsDuplicateGame(gameSignatures, row) == GameSignature(row) \in gameSignatures

\* teamRoundTracker.get(key).has(round); the map is the set of its pairs <<key, round>>
IsDoubleBooked(teamRoundTracker, key, round) == <<key, round>> \in teamRoundTracker

\* mutant: only the home team's round is recorded
TrackRoundHomeOnly(teamRoundTracker, row) ==
    teamRoundTracker \cup {<<TeamKey(row, row.homeTeam), row.round>>}

\* teamRoundTracker.get(homeKey).add(round); teamRoundTracker.get(awayKey).add(round)
TrackRound(teamRoundTracker, row) ==
    teamRoundTracker \cup {<<TeamKey(row, row.homeTeam), row.round>>,
                           <<TeamKey(row, row.awayTeam), row.round>>}

\* the state of the forEach loop after the first n rows: the errors, the set
\* gameSignatures and the map teamRoundTracker
RECURSIVE CrossRowLoop(_, _)
CrossRowLoop(rows, n) ==
    IF n = 0 THEN [errors |-> <<>>, gameSignatures |-> {}, teamRoundTracker |-> {}]
    ELSE LET st  == CrossRowLoop(rows, n - 1)
             row == rows[n]
         IN  [errors |->
                    st.errors
                 \o (IF IsDuplicateGame(st.gameSignatures, row)
                      THEN <<IntegrityErr("DuplicateGame", n, row,
                                          <<row.homeTeam, row.awayTeam>>)>>
                      ELSE <<>>)
                 \o (IF IsDoubleBooked(st.teamRoundTracker, TeamKey(row, row.homeTeam), row.round)
                      THEN <<IntegrityErr("DoubleBooking", n, row, <<row.homeTeam>>)>>
                      ELSE <<>>)
                 \o (IF IsDoubleBooked(st.teamRoundTracker, TeamKey(row, row.awayTeam), row.round)
                      THEN <<IntegrityErr("DoubleBooking", n, row, <<row.awayTeam>>)>>
                      ELSE <<>>),
              gameSignatures |-> st.gameSignatures \cup {GameSignature(row)},
              teamRoundTracker |-> TrackRound(st.teamRoundTracker, row)]

ValidateCrossRowRules(rows) == CrossRowLoop(rows, Len(rows)).errors

\* validateBusinessRules, given the loaded context: the rows in order, then
\* the cross-row rules
RECURSIVE ValidateRows(_, _, _, _)
ValidateRows(rows, n, ctx, now) ==
    IF n = 0 THEN <<>>
    ELSE ValidateRows(rows, n - 1, ctx, now) \o ValidateFixtureRow(rows[n], n, ctx, now)

ValidateBusinessRules(rows, ctx, now) ==
    ValidateRows(rows, Len(rows), ctx, now) \o ValidateCrossRowRules(rows)

\* ------------------------------------------------------------------------
\* Inputs
\* ------------------------------------------------------------------------
SeasonID == "S1"

\* sequences over S of length at most n
SeqsUpTo(S, n) == UNION {[1..k -> S] : k \in 0..n}

\* the grades of the season: "A" has id = code; "B" has id "g2"; "C" has the
\* id "B", which is the code of another grade
GradeA(n) == [id |-> <<"A">>, code |-> <<"A">>, seasonID |-> SeasonID, noOfRounds |-> n, startDate |-> 0]
GradeB(n) == [id |-> <<"g", "2">>, code |-> <<"B">>, seasonID |-> SeasonID, noOfRounds |-> n, startDate |-> 0]
GradeC(n) == [id |-> <<"B">>, code |-> <<"C">>, seasonID |-> SeasonID, noOfRounds |-> n, startDate |-> 0]

\* FixtureRows given to validateCrossRowRules: two grade codes, and team
\* pairs that share teams between rows
CrossTeamPairs ==
    {<<<<"B", "-", "C">>, <<"D">>>>, <<<<"C">>, <<"D">>>>, <<<<"D">>, <<"C">>>>, <<<<"C">>, <<"C">>>>}

CrossRowInputs ==
    {[gradeCode |-> c, homeTeam |-> p[1], awayTeam |-> p[2], date |-> 1, round |-> r] :
        c \in {<<"A">>, <<"A", "-", "B">>}, p \in CrossTeamPairs, r \in 1..MaxRound}

\* FixtureRows given to validateFixtureRow: grade codes of the three grades
\* and one that names no grade, registered and unregistered team names
RowInputs ==
    [gradeCode : {<<"A">>, <<"B">>, <<"C">>, <<"Z">>},
     homeTeam : {<<"L">>, <<"X">>},
     awayTeam : {<<"T">>, <<"X">>},
     date : 1..MaxDay,
     round : 1..MaxRound]

\* the other row of the upload the context is loaded for
OtherRowInputs ==
    {[gradeCode |-> c, homeTeam |-> <<"L">>, awayTeam |-> <<"T">>, date |-> MaxDay, round |-> 1] :
        c \in {<<"A">>, <<"B">>, <<"C">>, <<"Z">>}}

\* one round holding one game for every grade of `withFixtures`
RoundsOf(withFixtures) ==
    {[id |-> g.id, gradeID |-> g.id, sequenceNo |-> 1, provisionalDate |-> 1] : g \in withFixtures}

RECURSIVE SetToSeq(_)
SetToSeq(S) ==
    IF S = {} THEN <<>> ELSE LET x == CHOOSE y \in S : TRUE IN <<x>> \o SetToSeq(S \ {x})

GamesOf(withFixtures) ==
    SetToSeq({[id |-> r.id, roundID |-> r.id, homeTeamID |-> <<"t", "1">>,
               awayTeamID |-> <<"t", "2">>] : r \in RoundsOf(withFixtures)})

\* ------------------------------------------------------------------------
\* Cross-row validation applied to bounded uploads
\* ------------------------------------------------------------------------
\* no collaborator was called: the store lookups issued by validation, the
\* collaborator whose failure validation met, the COMMIT and ROLLBACK
\* statements that returned and the release() calls of persist, the write
\* statements and the COMMIT that persist has executed, in order, and how the
\* promise of each lookup given to Promise.all has settled
NoCalls ==
    [lookups |-> <<>>, failed |-> "none", commits |-> 0, rollbacks |-> 0, releases |-> 0,
     statements |-> <<>>,
     settled |-> [l \in Range(ContextLookups) \cup Range(UploadLookups) |-> "unissued"]]

\* nothing under way in the handler and in the persist service
HandlerIdle ==
    /\ roundsParams = <<>>
    /\ lookups = [hasFixtureByGradeIDs |-> <<>>, existingGames |-> {}]
    /\ gradeAttributes = <<>>
    /\ txOpen = FALSE
    /\ txRounds = {}
    /\ txGames = <<>>
    /\ txGrades = {}
    /\ pos = [g |-> 0, r |-> 0, k |-> 0]
    /\ roundID = 0
    /\ collected = [gameIDs |-> <<>>, teamIDs |-> <<>>]
    /\ persistError = "none"
    /\ outcome = "none"
    /\ events = <<>>
    /\ uploads = 0
    /\ dbAtCall = <<>>
    /\ txWrites = 0
    /\ committedParams = <<>>
    /\ calls = NoCalls

InitCross ==
    /\ fixtureRows \in SeqsUpTo(CrossRowInputs, MaxRows)
    /\ pc = "cross"
    /\ errors = <<>>
    /\ dbGrades = {}
    /\ dbRounds = {}
    /\ dbGames = <<>>
    /\ gamesIdUnique = TRUE
    /\ upload = <<>>
    /\ context = [seasonID |-> SeasonID, grades |-> {}, teams |-> {}, existingFixtures |-> <<>>]
    /\ today = 0
    /\ validationErrors = <<>>
    /\ HandlerIdle

CrossRowRules ==
    /\ pc = "cross"
    /\ errors' = ValidateCrossRowRules(fixtureRows)
    /\ pc' = "crossDone"
    /\ UNCHANGED <<storeVars, upload, fixtureRows, context, today, validationErrors,
                   processVars, txVars, persistVars, resultVars>>
    /\ UNCHANGED historyVars

NextCross == CrossRowRules

SpecCross == InitCross /\ [][NextCross]_vars

\* ------------------------------------------------------------------------
\* Row validation applied to bounded rows and contexts
\* ------------------------------------------------------------------------
InitRow ==
    /\ \E n \in 1..MaxRound :
         dbGrades = {GradeA(n), GradeB(n), GradeC(n)}
    /\ \E withFixtures \in SUBSET {GradeA(0), GradeB(0), GradeC(0)} :
         /\ dbRounds = RoundsOf(withFixtures)
         /\ dbGames = GamesOf(withFixtures)
    /\ \E row \in RowInputs :
         \/ fixtureRows = <<row>>
         \/ \E other \in OtherRowInputs : fixtureRows = <<row, other>>
    /\ today \in 1..MaxDay
    /\ pc = "rowLoad"
    /\ errors = <<>>
    /\ gamesIdUnique = TRUE
    /\ upload = <<>>
    /\ context = [seasonID |-> SeasonID, grades |-> {}, teams |-> {}, existingFixtures |-> <<>>]
    /\ validationErrors = <<>>
    /\ HandlerIdle

RowLoadContext ==
    /\ pc = "rowLoad"
    /\ context' = LoadValidationContext(dbGrades, dbRounds, dbGames, SeasonID, fixtureRows)
    /\ pc' = "rowValidate"
    /\ UNCHANGED <<storeVars, upload, fixtureRows, errors, today, validationErrors,
                   processVars, txVars, persistVars, resultVars>>
    /\ calls' = [calls EXCEPT !.lookups = @ \o ContextLookups]
    /\ UNCHANGED committedParams

RowValidate ==
    /\ pc = "rowValidate"
    /\ errors' = ValidateRows(fixtureRows, Len(fixtureRows), context, today)
    /\ pc' = "rowDone"
    /\ UNCHANGED <<storeVars, upload, fixtureRows, context, today, validationErrors,
                   processVars, txVars, persistVars, resultVars>>
    /\ UNCHANGED historyVars

NextRow == RowLoadContext \/ RowValidate

SpecRow == InitRow /\ [][NextRow]_vars

\* ------------------------------------------------------------------------
\* Properties of cross-row validation (SpecCross)
\* ------------------------------------------------------------------------
ErrorsAt(errs, i, rule) == SelectSeq(errs, LAMBDA e : e.at = i /\ e.rule = rule)

\* the two rows are the same game: identical (gradeCode, homeTeam, awayTeam, round)
SameGame(r1, r2) ==
    /\ r1.gradeCode = r2.gradeCode
    /\ r1.homeTeam = r2.homeTeam
    /\ r1.awayTeam = r2.awayTeam
    /\ r1.round = r2.round

\* the team plays, at home or away, in the row's grade and round in an earlier row
BookedEarlier(rows, i, team) ==
    \E j \in 1..(i - 1) :
        /\ rows[j].gradeCode = rows[i].gradeCode
        /\ rows[j].round = rows[i].round
        /\ team \in {rows[j].homeTeam, rows[j].awayTeam}

TwoIdenticalRows ==
    /\ pc = "crossDone"
    /\ Len(fixtureRows) = 2
    /\ SameGame(fixtureRows[1], fixtureRows[2])

\* C4 as claimed: two rows with identical (gradeCode, homeTeam, awayTeam,
\* round) yield exactly one DataIntegrity violation, raised at the second row.
C4_ExactlyOneIntegrityViolation ==
    TwoIdenticalRows =>
        /\ Len(SelectSeq(errors, LAMBDA e : e.type = "DATA_INTEGRITY")) = 1
        /\ \A k \in 1..Len(errors) : errors[k].at = 2

\* C4 as amended: two rows with identical (gradeCode, homeTeam, awayTeam,
\* round) yield exactly one duplicate-game violation, raised at the second
\* row, together with one double-booking violation for its home team and one
\* for its away team: three DataIntegrity violations, all at the second row.
C4_OneDuplicateAndTwoDoubleBookings ==
    TwoIdenticalRows =>
        LET row == fixtureRows[2]
        IN  errors = <<IntegrityErr("DuplicateGame", 2, row, <<row.homeTeam, row.awayTeam>>),
                       IntegrityErr("DoubleBooking", 2, row, <<row.homeTeam>>),
                       IntegrityErr("DoubleBooking", 2, row, <<row.awayTeam>>)>>

C4_Witness ==
    /\ TwoIdenticalRows
    /\ fixtureRows[1].homeTeam # fixtureRows[1].awayTeam
    /\ Len(ErrorsAt(errors, 2, "DuplicateGame")) = 1

\* C9 as claimed: a duplicate-game violation is reported at row i whenever an
\* earlier row has the same (gradeCode, homeTeam, awayTeam, round), and the
\* first row carrying a signature is never reported as a duplicate.
C9_DuplicateIffEarlierSameGame ==
    pc = "crossDone" =>
        \A i \in 1..Len(fixtureRows) :
            (ErrorsAt(errors, i, "DuplicateGame") # <<>>)
                <=> (\E j \in 1..(i - 1) : SameGame(fixtureRows[j], fixtureRows[i]))

\* C10: a row whose home team (respectively away team) appeared, at home or
\* away, in an earlier row of the same gradeCode and round yields a
\* double-booking violation naming that team; the two roles are checked
\* independently, so a row whose two teams were both booked yields two.
C10_DoubleBookingReported ==
    pc = "crossDone" =>
        \A i \in 1..Len(fixtureRows) :
            LET row    == fixtureRows[i]
                booked == ErrorsAt(errors, i, "DoubleBooking")
                home   == IntegrityErr("DoubleBooking", i, row, <<row.homeTeam>>)
                away   == IntegrityErr("DoubleBooking", i, row, <<row.awayTeam>>)
            IN  /\ BookedEarlier(fixtureRows, i, row.homeTeam) => home \in Range(booked)
                /\ BookedEarlier(fixtureRows, i, row.awayTeam) => away \in Range(booked)
                /\ BookedEarlier(fixtureRows, i, row.homeTeam)
                     /\ BookedEarlier(fixtureRows, i, row.awayTeam) => Len(booked) = 2

C10_Witness ==
    /\ pc = "crossDone"
    /\ \E i \in 1..Len(fixtureRows) :
         LET row == fixtureRows[i]
         IN  /\ row.homeTeam # row.awayTeam
             /\ ~\E j \in 1..(i - 1) : SameGame(fixtureRows[j], row)
             /\ BookedEarlier(fixtureRows, i, row.homeTeam)
             /\ BookedEarlier(fixtureRows, i, row.awayTeam)
             /\ Len(ErrorsAt(errors, i, "DoubleBooking")) = 2

\* ------------------------------------------------------------------------
\* Properties of row validation (SpecRow)
\* ------------------------------------------------------------------------
\* the row's gradeCode names a grade of the season
Resolves(row) == \E g \in dbGrades : g.seasonID = SeasonID /\ g.code = row.gradeCode
GradeOf(row) == CHOOSE g \in dbGrades : g.seasonID = SeasonID /\ g.code = row.gradeCode

FixturesUnderKey(id) ==
    \E h \in dbGrades :
        /\ h.code = id
        /\ h.code \in UniqueGradeCodes(fixtureRows)
        /\ GradeHasGame(h, dbRounds, dbGames)

C8_GradeShortCircuit ==
    pc = "rowDone" =>
        \A i \in 1..Len(fixtureRows) :
            LET row == fixtureRows[i]
            IN  (~\E g \in context.grades : g.code = row.gradeCode) =>
                    SelectSeq(errors, LAMBDA e : e.at = i)
                        = <<BusinessErr("GradeNotFound", i, row, <<>>, 0)>>

C8_Witness ==
    /\ pc = "rowDone"
    /\ ~\E g \in context.grades : g.code = fixtureRows[1].gradeCode
    /\ fixtureRows[1].homeTeam = <<"X">>
    /\ fixtureRows[1].date < today
    /\ Len(errors) >= 1
    /\ errors[1].rule = "GradeNotFound"

\* ------------------------------------------------------------------------
\* The store: statements of the repositories and of the persist service
\* ------------------------------------------------------------------------
\* mutant: a plain INSERT, with no ON CONFLICT clause
InsertedRound(rounds, gradeID, round) ==
    rounds \cup {[id |-> Cardinality(rounds) + 1, gradeID |-> gradeID,
                  sequenceNo |-> round.sequenceNo,
                  provisionalDate |-> round.provisionalDate]}

\* INSERT INTO rounds ... ON CONFLICT (grade_id, sequence_no) DO UPDATE SET
\* provisional_date = EXCLUDED.provisional_date; a new row gets a fresh id
UpsertedRound(rounds, gradeID, round) ==
    IF \E r \in rounds : r.gradeID = gradeID /\ r.sequenceNo = round.sequenceNo
    THEN {IF r.gradeID = gradeID /\ r.sequenceNo = round.sequenceNo
            THEN [r EXCEPT !.provisionalDate = round.provisionalDate]
            ELSE r : r \in rounds}
    ELSE rounds \cup {[id |-> Cardinality(rounds) + 1, gradeID |-> gradeID,
                       sequenceNo |-> round.sequenceNo,
                       provisionalDate |-> round.provisionalDate]}

\* RETURNING id as round_id
ReturnedRoundID(rounds, gradeID, round) ==
    LET hit == {r \in rounds : /\ r.gradeID = gradeID
                               /\ r.sequenceNo = round.sequenceNo
                               /\ r.provisionalDate = round.provisionalDate}
    IN  (CHOOSE r \in hit : \A q \in hit : q.id <= r.id).id

\* INSERT INTO games (id, round_id, home_team_id, away_team_id, ...)
InsertedGame(games, gameData, rid) ==
    Append(games, [id |-> gameData.id, roundID |-> rid,
                   homeTeamID |-> gameData.homeTeamID, awayTeamID |-> gameData.awayTeamID])

\* the INSERT is refused when games.id is declared unique and the id is taken
GameIdTaken(games, gameData) ==
    gamesIdUnique /\ \E k \in 1..Len(games) : games[k].id = gameData.id

\* mutant: the UPDATE sets start_date alone
UpdatedGradesStartDateOnly(grades, gradeID, attributes) ==
    {IF g.id = gradeID THEN [g EXCEPT !.startDate = attributes.startDate] ELSE g : g \in grades}

\* UPDATE grades SET no_of_rounds = $2, start_date = $3 WHERE id = $1
UpdatedGrades(grades, gradeID, attributes) ==
    {IF g.id = gradeID
       THEN [g EXCEPT !.noOfRounds = attributes.noOfRounds, !.startDate = attributes.startDate]
       ELSE g : g \in grades}

\* gradeRepo.hasFixtures: one entry per grade whose id is in the list
HasFixtures(grades, rounds, games, gradeIDs) ==
    [id \in {g.id : g \in {h \in grades : h.id \in gradeIDs}} |->
        \E g \in grades : g.id = id /\ GradeHasGame(g, rounds, games)]

\* gameRepo.findByGradeIDs, flattened: the ids of the games of the listed grades
FindGamesByGradeIDs(rounds, games, gradeIDs) ==
    {games[k].id : k \in {j \in 1..Len(games) :
        \E r \in rounds : r.id = games[j].roundID /\ r.gradeID \in gradeIDs}}

\* roundRepo.findByGradeIDs for one grade: its rounds ORDER BY sequence_no
RECURSIVE RoundsBySequenceNo(_)
RoundsBySequenceNo(rounds) ==
    IF rounds = {} THEN <<>>
    ELSE LET first == CHOOSE r \in rounds : \A q \in rounds : r.sequenceNo <= q.sequenceNo
         IN  <<first>> \o RoundsBySequenceNo(rounds \ {first})

FindRoundsByGradeID(rounds, gradeID) ==
    LET sorted == RoundsBySequenceNo({r \in rounds : r.gradeID = gradeID})
    IN  [i \in 1..Len(sorted) |-> RoundRow(sorted[i])]

\* Object.keys(roundsParams) and roundsParams[gradeID]
GradeIDs(params) == [i \in 1..Len(params) |-> params[i].gradeID]
RoundsFor(params, gradeID) ==
    (CHOOSE i \in 1..Len(params) : params[i].gradeID = gradeID) 
KeySet(params) == {params[i].gradeID : i \in 1..Len(params)}

\* existingRounds[0]?.provisionalDate || suppliedRounds[0]?.round?.provisionalDate;
\* 0 stands for an undefined date
FirstDate(existingRounds, suppliedRounds) ==
    LET existing == IF existingRounds # <<>>
                      THEN Property(existingRounds[1], "provisionalDate")
                      ELSE Undefined
    IN  IF existing \notin {Undefined, 0} THEN existing
        ELSE IF suppliedRounds # <<>> THEN suppliedRounds[1].round.provisionalDate
        ELSE 0

\* calculateGradeAttributes for one grade
GradeAttributesOf(existingRounds, suppliedRounds) ==
    [noOfRounds |-> Len(existingRounds) + Len(suppliedRounds),
     startDate |-> FirstDate(existingRounds, suppliedRounds)]

\* mutant: the existing rounds of every grade are counted for each grade
CalculateGradeAttributesOverAllGrades(params, rounds) ==
    [id \in KeySet(params) |->
        GradeAttributesOf([i \in 1..Cardinality(rounds) |->
                              RoundRow(RoundsBySequenceNo(rounds)[i])],
                          params[RoundsFor(params, id)].rounds)]

\* calculateGradeAttributes: one entry per key of roundsParams
CalculateGradeAttributes(params, rounds) ==
    [id \in KeySet(params) |->
        GradeAttributesOf(FindRoundsByGradeID(rounds, id),
                          params[RoundsFor(params, id)].rounds)]

\* [...new Set(allTeamIDs)]: the first occurrence of every id, in order
RECURSIVE Deduplicate(_)
Deduplicate(ids) ==
    IF ids = <<>> THEN <<>>
    ELSE LET front == Deduplicate(SubSeq(ids, 1, Len(ids) - 1))
             last  == ids[Len(ids)]
         IN  IF last \in Range(front) THEN front ELSE Append(front, last)

\* ------------------------------------------------------------------------
\* Events: generateEvents and getFixtureWebhookEvents
\* ------------------------------------------------------------------------
Event(type, gradeID, ids) == [type |-> type, gradeID |-> gradeID, ids |-> ids]

GenerateEvents(gradeIDs, teamIDs, newGameIDs, existingGames, hasFixtureByGradeIDs) ==
       [i \in 1..Len(gradeIDs) |-> Event("CalculateLadder", gradeIDs[i], <<>>)]
    \o (IF existingGames # {} THEN <<Event("GamesAllocated", <<>>, SetToSeq(existingGames))>>
        ELSE <<>>)
    \o (IF newGameIDs # <<>> THEN <<Event("GamesAllocationCreated", <<>>, newGameIDs)>>
        ELSE <<>>)
    \o <<Event("TeamUpdated", <<>>, teamIDs)>>
    \o [i \in 1..Len(gradeIDs) |->
          Event(IF Truthy(hasFixtureByGradeIDs, gradeIDs[i]) THEN "FixtureUpdated"
                ELSE "FixtureCreated", gradeIDs[i], <<>>)]

\* ------------------------------------------------------------------------
\* Inputs of handle
\* ------------------------------------------------------------------------
RawRow(gradeCode, homeTeam, awayTeam, date, round) ==
    [gradeCode |-> gradeCode, homeTeam |-> homeTeam, awayTeam |-> awayTeam,
     date |-> date, round |-> round]

\* rows the decoder can yield: rows that pass every rule, rows dated on the
\* first day, rows breaking one format or business rule each, and two games
\* between four teams whose names hold a '-'
RawRowInputs ==
    {RawRow(<<"A">>, <<"L">>, <<"T">>, MaxDay, <<"1">>),
     RawRow(<<"A">>, <<"C">>, <<"D">>, MaxDay, <<"1">>),
     RawRow(<<"B">>, <<"L">>, <<"T">>, MaxDay, <<"2">>),
     RawRow(<<"A">>, <<"L">>, <<"T">>, 1, <<"2">>),
     RawRow(<<"Z">>, <<"L">>, <<"T">>, MaxDay, <<"1">>),
     RawRow(<<"A">>, <<>>, <<"T">>, MaxDay, <<"1">>),
     RawRow(<<"A">>, <<"L">>, <<"T">>, MaxDay, <<"0">>),
     RawRow(<<"A">>, <<"L">>, <<"T">>, MaxDay, <<"x">>),
     RawRow(<<"A">>, <<" ", "T">>, <<"T">>, 0, <<"1">>),
     RawRow(<<"A">>, <<" ", "T">>, <<"T">>, MaxDay, <<"1">>),
     RawRow(<<"A">>, <<"B", "-", "C">>, <<"D">>, MaxDay, <<"1">>),
     RawRow(<<"A">>, <<"B">>, <<"C", "-", "D">>, MaxDay, <<"1">>)}

RawUploads == SeqsUpTo(RawRowInputs, MaxRawRows)

\* games of a roundsParams: caller-supplied ids, two games sharing a team
Game1 == [id |-> <<"k", "1">>, homeTeamID |-> <<"t", "1">>, awayTeamID |-> <<"t", "2">>]
Game2 == [id |-> <<"k", "2">>, homeTeamID |-> <<"t", "1">>, awayTeamID |-> <<"t", "4">>]

RoundParamInputs(games) ==
    {[round |-> [sequenceNo |-> n, provisionalDate |-> d], games |-> gs] :
        n \in 1..MaxRound, d \in 1..MaxDay, gs \in SeqsUpTo(games, MaxGamesPerRound)}

GradeParamInputs(gradeID, rounds) ==
    {[gradeID |-> gradeID, rounds |-> rs] : rs \in SeqsUpTo(rounds, MaxRoundsPerGrade)}

\* grade "A" is given any round; grade "g2" a round 1 of day 1, whose game
\* shares its home team with the game of grade "A"
GradeAInputs == GradeParamInputs(<<"A">>, RoundParamInputs({Game1}))
GradeBInputs ==
    GradeParamInputs(<<"g", "2">>,
                     {r \in RoundParamInputs({Game2}) :
                          r.round.sequenceNo = 1 /\ r.round.provisionalDate = 1})

\* what parseFixtureFile can yield: no grade (the value the source's stand-in
\* returns), one of the two grades, or both in either key order
RoundsParamsInputs ==
    {<<>>}
    \cup {<<a>> : a \in GradeAInputs \cup GradeBInputs}
    \cup {<<a, b>> : a \in GradeAInputs, b \in GradeBInputs}
    \cup {<<b, a>> : a \in GradeAInputs, b \in GradeBInputs}

\* ------------------------------------------------------------------------
\* handle: validate, then process (lookups, attributes, persist), then events
\* ------------------------------------------------------------------------
FailedToAccess == Err("NONE", "FailedToAccessFile", 0, <<>>, <<>>, 0, 0)

\* parseResult.formatErrors
FormatErrorsOf(rows) == ParseAndValidateFile(rows, Len(rows)).formatErrors

\* validateS3File when no collaborator fails: the format errors alone if there
\* is one, otherwise the business-rule errors of the parsed rows
ValidationErrorsOf(rows, grades, rounds, games, now) ==
    LET parseResult == ParseAndValidateFile(rows, Len(rows))
        ctx == LoadValidationContext(grades, rounds, games, SeasonID, parseResult.fixtureRows)
    IN  IF parseResult.formatErrors # <<>> THEN parseResult.formatErrors
        ELSE parseResult.formatErrors
                \o ValidateBusinessRules(parseResult.fixtureRows, ctx, now)

\* mutant: handle goes on unless there are two errors or more
RejectsUploadIfSeveral(validationErrs) == Len(validationErrs) > 1

\* if (validationErrors?.length)
RejectsUpload(validationErrs) == Len(validationErrs) > 0

Init ==
    /\ dbGrades = {GradeA(MaxRound), GradeB(MaxRound)}
    /\ dbRounds = {}
    /\ dbGames = <<>>
    /\ gamesIdUnique \in BOOLEAN
    /\ pc = "idle"
    /\ upload = <<>>
    /\ fixtureRows = <<>>
    /\ context = [seasonID |-> SeasonID, grades |-> {}, teams |-> {}, existingFixtures |-> <<>>]
    /\ errors = <<>>
    /\ today = 0
    /\ validationErrors = <<>>
    /\ HandlerIdle

\* a command arrives: the file it names decodes to `rows`
Handle ==
    /\ pc \in {"idle", "done"}
    /\ uploads < MaxUploads
    /\ \E rows \in RawUploads : upload' = rows
    /\ \E now \in 1..MaxDay : today' = now
    /\ uploads' = uploads + 1
    /\ pc' = "validate"
    /\ validationErrors' = <<>>
    /\ roundsParams' = <<>>
    /\ lookups' = [hasFixtureByGradeIDs |-> <<>>, existingGames |-> {}]
    /\ gradeAttributes' = <<>>
    /\ pos' = [g |-> 0, r |-> 0, k |-> 0]
    /\ roundID' = 0
    /\ collected' = [gameIDs |-> <<>>, teamIDs |-> <<>>]
    /\ persistError' = "none"
    /\ outcome' = "none"
    /\ events' = <<>>
    /\ dbAtCall' = <<>>
    /\ txWrites' = 0
    /\ UNCHANGED <<storeVars, fixtureRows, context, errors, txVars>>
    /\ calls' = NoCalls
    /\ UNCHANGED committedParams

\* STEP 1: validateS3File; a failing S3 read or lookup is caught and returned
\* as the one error 'Failed to access or process uploaded file'
ValidateS3File ==
    /\ pc = "validate"
    /\ \/ /\ validationErrors' = <<FailedToAccess>>
          /\ calls' = [calls EXCEPT !.failed = "s3"]
       \/ /\ FormatErrorsOf(upload) # <<>>
          /\ validationErrors' = FormatErrorsOf(upload)
          /\ UNCHANGED calls
       \/ /\ FormatErrorsOf(upload) = <<>>
          /\ validationErrors' = ValidationErrorsOf(upload, dbGrades, dbRounds, dbGames, today)
          /\ calls' = [calls EXCEPT !.lookups = @ \o ContextLookups]
       \/ /\ FormatErrorsOf(upload) = <<>>
          /\ validationErrors' = <<FailedToAccess>>
          /\ calls' = [calls EXCEPT !.lookups = @ \o ContextLookups, !.failed = "lookup"]
    /\ pc' = "validated"
    /\ UNCHANGED <<storeVars, upload, fixtureRows, context, errors, today,
                   processVars, txVars, persistVars, resultVars, committedParams>>

\* return { result: { errors: validationErrors, fixture: null }, events: [] }
RejectUpload ==
    /\ pc = "validated"
    /\ RejectsUpload(validationErrors)
    /\ outcome' = "rejected"
    /\ events' = <<>>
    /\ pc' = "done"
    /\ UNCHANGED <<storeVars, validationVars, processVars, txVars, persistVars, uploads>>
    /\ UNCHANGED historyVars

\* processFixtureUpload: parseFixtureFile, then the three lookups of Promise.all
ProcessLookups ==
    /\ pc = "validated"
    /\ ~RejectsUpload(validationErrors)
    /\ \E params \in RoundsParamsInputs :
         /\ roundsParams' = params
         /\ \/ /\ lookups' =
                    [hasFixtureByGradeIDs |->
                         HasFixtures(dbGrades, dbRounds, dbGames, KeySet(params)),
                     existingGames |-> FindGamesByGradeIDs(dbRounds, dbGames, KeySet(params))]
               /\ pc' = "calculate"
            \/ /\ pc' = "throw"
               /\ UNCHANGED lookups
    /\ upload' = <<>>
    /\ today' = 0
    /\ UNCHANGED <<storeVars, fixtureRows, context, errors, validationErrors,
                   gradeAttributes, txVars, persistVars, resultVars>>
    /\ UNCHANGED historyVars

\* calculateGradeAttributes: reads the stored rounds outside any transaction
CalculateAttributes ==
    /\ pc = "calculate"
    /\ \/ /\ gradeAttributes' = CalculateGradeAttributes(roundsParams, dbRounds)
          /\ pc' = "getClient"
       \/ /\ pc' = "throw"
          /\ UNCHANGED gradeAttributes
    /\ UNCHANGED <<storeVars, validationVars, roundsParams, lookups, txVars,
                   persistVars, resultVars>>
    /\ UNCHANGED historyVars

\* ------------------------------------------------------------------------
\* persist
\* ------------------------------------------------------------------------
\* a write statement of the client: inside a transaction it changes the
\* transaction's view, otherwise it is committed at once
Write(rounds, games, grades) ==
    IF txOpen
    THEN /\ txRounds' = rounds
         /\ txGames' = games
         /\ txGrades' = grades
         /\ UNCHANGED <<dbRounds, dbGames, dbGrades>>
    ELSE /\ dbRounds' = rounds
         /\ dbGames' = games
         /\ dbGrades' = grades
         /\ UNCHANGED <<txRounds, txGames, txGrades>>

ViewRounds == IF txOpen THEN txRounds ELSE dbRounds
ViewGames == IF txOpen THEN txGames ELSE dbGames
ViewGrades == IF txOpen THEN txGrades ELSE dbGrades

\* a statement persist has executed: the round upsert of (gradeID, sequenceNo)
\* and the id it returned, the insert of game `id` under round `roundID`, the
\* attribute update of gradeID, or the COMMIT
Statement(op, gradeID, sequenceNo, rid, id) ==
    [op |-> op, gradeID |-> gradeID, sequenceNo |-> sequenceNo, roundID |-> rid, id |-> id]

\* an awaited statement failed: control goes to the catch block
Fails(cause) ==
    /\ persistError' = cause
    /\ pc' = "rollback"

CurrentGrade == roundsParams[pos.g]
CurrentRound == CurrentGrade.rounds[pos.r]

\* const client = await this.postgresAdapter.getClient(), ahead of the try
GetClient ==
    /\ pc = "getClient"
    /\ dbAtCall' = <<dbGrades, dbRounds, dbGames>>
    /\ \/ /\ pc' = "begin"
          /\ UNCHANGED persistError
       \/ /\ pc' = "throw"
          /\ persistError' = "getClient"
    /\ UNCHANGED <<storeVars, validationVars, processVars, txVars, pos, roundID,
                   collected, txWrites, resultVars>>
    /\ UNCHANGED historyVars

\* mutant: BEGIN is sent on another connection of the pool, not on the client
BeginOnOtherConnection ==
    /\ pc = "begin"
    /\ \/ /\ pos' = [g |-> 1, r |-> 1, k |-> 0]
          /\ pc' = "persist"
          /\ UNCHANGED persistError
       \/ /\ Fails("begin")
          /\ UNCHANGED pos
    /\ UNCHANGED <<storeVars, validationVars, processVars, txVars, roundID, collected,
                   dbAtCall, txWrites, resultVars>>
    /\ UNCHANGED historyVars

\* await client.query('BEGIN')
Begin ==
    /\ pc = "begin"
    /\ \/ /\ txOpen' = TRUE
          /\ txRounds' = dbRounds
          /\ txGames' = dbGames
          /\ txGrades' = dbGrades
          /\ pos' = [g |-> 1, r |-> 1, k |-> 0]
          /\ pc' = "persist"
          /\ UNCHANGED persistError
       \/ /\ Fails("begin")
          /\ UNCHANGED <<txVars, pos>>
    /\ UNCHANGED <<storeVars, validationVars, processVars, roundID, collected,
                   dbAtCall, txWrites, resultVars>>
    /\ UNCHANGED historyVars

\* persistRound, first statement: the round upsert
UpsertRound ==
    /\ pc = "persist"
    /\ pos.g <= Len(roundsParams)
    /\ pos.r <= Len(CurrentGrade.rounds)
    /\ pos.k = 0
    /\ \/ LET rounds == UpsertedRound(ViewRounds, CurrentGrade.gradeID, CurrentRound.round)
          IN  /\ Write(rounds, ViewGames, ViewGrades)
              /\ roundID' = ReturnedRoundID(rounds, CurrentGrade.gradeID, CurrentRound.round)
              /\ pos' = IF CurrentRound.games = <<>>
                          THEN [pos EXCEPT !.r = pos.r + 1]
                          ELSE [pos EXCEPT !.k = 1]
              /\ txWrites' = txWrites + 1
              /\ calls' = [calls EXCEPT !.statements =
                               Append(@, Statement("round", CurrentGrade.gradeID,
                                                   CurrentRound.round.sequenceNo,
                                                   roundID', <<>>))]
              /\ UNCHANGED <<pc, persistError>>
       \/ /\ Fails("write")
          /\ UNCHANGED <<dbGrades, dbRounds, dbGames, txRounds, txGames, txGrades,
                         roundID, pos, txWrites, calls>>
    /\ UNCHANGED <<gamesIdUnique, validationVars, processVars, txOpen, collected,
                   dbAtCall, resultVars>>
    /\ UNCHANGED committedParams

\* persistRound, the games loop: one game insert
InsertGame ==
    /\ pc = "persist"
    /\ pos.g <= Len(roundsParams)
    /\ pos.r <= Len(CurrentGrade.rounds)
    /\ pos.k >= 1
    /\ LET gameData == CurrentRound.games[pos.k]
       IN  \/ /\ ~GameIdTaken(ViewGames, gameData)
              /\ Write(ViewRounds, InsertedGame(ViewGames, gameData, roundID), ViewGrades)
              /\ collected' =
                     [gameIDs |-> Append(collected.gameIDs, gameData.id),
                      teamIDs |-> collected.teamIDs
                                      \o <<gameData.homeTeamID, gameData.awayTeamID>>]
              /\ pos' = IF pos.k = Len(CurrentRound.games)
                          THEN [pos EXCEPT !.r = pos.r + 1, !.k = 0]
                          ELSE [pos EXCEPT !.k = pos.k + 1]
              /\ txWrites' = txWrites + 1
              /\ calls' = [calls EXCEPT !.statements =
                               Append(@, Statement("game", CurrentGrade.gradeID,
                                                   CurrentRound.round.sequenceNo,
                                                   roundID, gameData.id))]
              /\ UNCHANGED <<pc, persistError>>
           \/ /\ GameIdTaken(ViewGames, gameData)
              /\ Fails("unique_violation")
              /\ UNCHANGED <<dbGrades, dbRounds, dbGames, txRounds, txGames, txGrades,
                             collected, pos, txWrites, calls>>
           \/ /\ Fails("write")
              /\ UNCHANGED <<dbGrades, dbRounds, dbGames, txRounds, txGames, txGrades,
                             collected, pos, txWrites, calls>>
    /\ UNCHANGED <<gamesIdUnique, validationVars, processVars, txOpen, roundID,
                   dbAtCall, resultVars>>
    /\ UNCHANGED committedParams

\* mutant: the attributes of a grade are updated ahead of its rounds loop
UpdateGradeAttributesAheadOfRounds ==
    /\ pc = "persist"
    /\ pos.g <= Len(roundsParams)
    /\ pos.k = 0
    /\ \/ /\ Write(ViewRounds, ViewGames,
                   UpdatedGrades(ViewGrades, CurrentGrade.gradeID,
                                 gradeAttributes[CurrentGrade.gradeID]))
          /\ pos' = [g |-> pos.g + 1, r |-> 1, k |-> 0]
          /\ txWrites' = txWrites + 1
          /\ calls' = [calls EXCEPT !.statements =
                           Append(@, Statement("grade", CurrentGrade.gradeID, 0, 0, <<>>))]
          /\ UNCHANGED <<pc, persistError>>
       \/ /\ Fails("write")
          /\ UNCHANGED <<dbGrades, dbRounds, dbGames, txRounds, txGames, txGrades,
                         pos, txWrites, calls>>
    /\ UNCHANGED <<gamesIdUnique, validationVars, processVars, txOpen, roundID,
                   collected, dbAtCall, resultVars>>
    /\ UNCHANGED committedParams

\* updateGradeAttributes, after the grade's last round
UpdateGradeAttributes ==
    /\ pc = "persist"
    /\ pos.g <= Len(roundsParams)
    /\ pos.r > Len(CurrentGrade.rounds)
    /\ \/ /\ Write(ViewRounds, ViewGames,
                   UpdatedGrades(ViewGrades, CurrentGrade.gradeID,
                                 gradeAttributes[CurrentGrade.gradeID]))
          /\ pos' = [g |-> pos.g + 1, r |-> 1, k |-> 0]
          /\ txWrites' = txWrites + 1
          /\ calls' = [calls EXCEPT !.statements =
                           Append(@, Statement("grade", CurrentGrade.gradeID, 0, 0, <<>>))]
          /\ UNCHANGED <<pc, persistError>>
       \/ /\ Fails("write")
          /\ UNCHANGED <<dbGrades, dbRounds, dbGames, txRounds, txGames, txGrades,
                         pos, txWrites, calls>>
    /\ UNCHANGED <<gamesIdUnique, validationVars, processVars, txOpen, roundID,
                   collected, dbAtCall, resultVars>>
    /\ UNCHANGED committedParams

CommitApplied ==
    /\ IF txOpen
         THEN /\ dbRounds' = txRounds
              /\ dbGames' = txGames
              /\ dbGrades' = txGrades
         ELSE UNCHANGED <<dbRounds, dbGames, dbGrades>>
    /\ txOpen' = FALSE
    /\ txRounds' = {}
    /\ txGames' = <<>>
    /\ txGrades' = {}
    /\ committedParams' = Append(committedParams, roundsParams)

\* await client.query('COMMIT'), after the last grade.  A COMMIT that throws
\* was refused by the server, or was applied and its reply lost.
Commit ==
    /\ pc = "persist"
    /\ pos.g > Len(roundsParams)
    /\ \/ /\ CommitApplied
          /\ calls' = [calls EXCEPT !.commits = @ + 1,
                                    !.statements =
                                        Append(@, Statement("commit", <<>>, 0, 0, <<>>))]
          /\ pc' = "release"
          /\ UNCHANGED persistError
       \/ /\ Fails("commit")
          /\ UNCHANGED <<dbGrades, dbRounds, dbGames, txVars, committedParams, calls>>
       \/ /\ CommitApplied
          /\ Fails("commit")
          /\ UNCHANGED calls
    /\ UNCHANGED <<gamesIdUnique, validationVars, processVars, pos, roundID, collected,
                   dbAtCall, txWrites, resultVars>>

\* catch: await client.query('ROLLBACK'), then throw error.  The writes of the
\* open transaction are dropped; a ROLLBACK that itself throws has lost the
\* connection, whose transaction the server drops as well.
Rollback ==
    /\ pc = "rollback"
    /\ txOpen' = FALSE
    /\ txRounds' = {}
    /\ txGames' = <<>>
    /\ txGrades' = {}
    /\ \/ calls' = [calls EXCEPT !.rollbacks = @ + 1]
       \/ UNCHANGED calls
    /\ pc' = "release"
    /\ UNCHANGED <<storeVars, validationVars, processVars, persistVars, resultVars,
                   committedParams>>

\* mutant: release() is the last statement of the try block
ReleaseInTry ==
    /\ pc = "release"
    /\ pc' = IF persistError = "none" THEN "events" ELSE "throw"
    /\ UNCHANGED <<storeVars, validationVars, processVars, txVars, persistVars, resultVars>>
    /\ calls' = IF persistError = "none" THEN [calls EXCEPT !.releases = @ + 1] ELSE calls
    /\ UNCHANGED committedParams

\* finally: client.release(); persist then returns or rethrows
Release ==
    /\ pc = "release"
    /\ pc' = IF persistError = "none" THEN "events" ELSE "throw"
    /\ UNCHANGED <<storeVars, validationVars, processVars, txVars, persistVars, resultVars>>
    /\ calls' = [calls EXCEPT !.releases = @ + 1]
    /\ UNCHANGED committedParams

\* mutant: allTeamIDs is returned as it was collected
PersistResultWithAllTeamIDs ==
    [gradeIDs |-> GradeIDs(roundsParams),
     teamIDs |-> collected.teamIDs,
     gameIDs |-> collected.gameIDs]

\* return { gradeIDs, teamIDs: [...new Set(allTeamIDs)], gameIDs: allGameIDs }
PersistResult ==
    [gradeIDs |-> GradeIDs(roundsParams),
     teamIDs |-> Deduplicate(collected.teamIDs),
     gameIDs |-> collected.gameIDs]

\* STEP 3: generateEvents from persist's result and the lookups
ReturnEvents ==
    /\ pc = "events"
    /\ events' = GenerateEvents(PersistResult.gradeIDs, PersistResult.teamIDs,
                                PersistResult.gameIDs, lookups.existingGames,
                                lookups.hasFixtureByGradeIDs)
    /\ outcome' = "accepted"
    /\ pc' = "done"
    /\ UNCHANGED <<storeVars, validationVars, processVars, txVars, persistVars, uploads>>
    /\ UNCHANGED historyVars

\* catch (error) { throw new Error('Fixture upload failed') }
Throw ==
    /\ pc = "throw"
    /\ outcome' = "failed"
    /\ events' = <<>>
    /\ pc' = "done"
    /\ UNCHANGED <<storeVars, validationVars, processVars, txVars, persistVars, uploads>>
    /\ UNCHANGED historyVars

Next ==
    \/ Handle
    \/ ValidateS3File
    \/ RejectUpload
    \/ ProcessLookups
    \/ CalculateAttributes
    \/ GetClient
    \/ Begin
    \/ UpsertRound
    \/ InsertGame
    \/ UpdateGradeAttributes
    \/ Commit
    \/ Rollback
    \/ Release
    \/ ReturnEvents
    \/ Throw

Spec == Init /\ [][Next]_vars

\* ------------------------------------------------------------------------
\* Properties of handle and persist
\* ------------------------------------------------------------------------
\* the upload under way was found to have a violation
ViolationsFound == pc # "validate" /\ validationErrors # <<>>

\* C1: when validation yields any violation, handle returns the violations
\* with no event, and persistence is never started: persist is not called, no
\* statement is executed and the tables are those the call found.
C1_RejectedInFull ==
    ViolationsFound =>
        /\ pc \in {"validated", "done"}
        /\ pc = "done" => outcome = "rejected"
        /\ events = <<>>
        /\ dbAtCall = <<>>
        /\ txWrites = 0
        /\ ~txOpen

\* a second upload, with one business-rule violation, is rejected and the
\* fixtures an earlier upload stored are left alone
C1_Witness ==
    /\ pc = "done"
    /\ outcome = "rejected"
    /\ Len(validationErrors) = 1
    /\ validationErrors[1].type = "BUSINESS_RULE"
    /\ dbGames # <<>>

\* persist has returned after one of its writes failed
WriteFailed == pc \in {"throw", "done"} /\ persistError \in {"write", "unique_violation"}

\* C2: once persist has returned because a round upsert, a game insert or a
\* grade attribute update failed, the tables hold what they held when persist
\* was called: nothing the call wrote remains, whichever grade it failed at.
C2_NothingRemainsOfFailedPersist ==
    WriteFailed => /\ <<dbGrades, dbRounds, dbGames>> = dbAtCall
                   /\ ~txOpen

\* the second grade's round upsert fails after the first grade was written
\* in full (a round, a game and the attributes)
C2_Witness ==
    /\ pc = "throw"
    /\ persistError = "write"
    /\ pos = [g |-> 2, r |-> 1, k |-> 0]
    /\ txWrites = 3

\* every violation of the upload: the format violations of its rows and the
\* business-rule and cross-row violations of the rows that could be parsed
AllViolations(rows, grades, rounds, games, now) ==
    LET parseResult == ParseAndValidateFile(rows, Len(rows))
        ctx == LoadValidationContext(grades, rounds, games, SeasonID, parseResult.fixtureRows)
    IN  parseResult.formatErrors \o ValidateBusinessRules(parseResult.fixtureRows, ctx, now)

\* C3: the list handle returns for a rejected upload holds every FileFormat,
\* every BusinessRule and every DataIntegrity violation of the upload.
C3_EveryViolationReturned ==
    (pc = "validated" /\ validationErrors # <<FailedToAccess>>) =>
        Range(AllViolations(upload, dbGrades, dbRounds, dbGames, today))
            \subseteq Range(validationErrors)

\* the round writes of a roundsParams, in the order persist executes them
RECURSIVE Flatten(_)
Flatten(seqs) == IF seqs = <<>> THEN <<>> ELSE Head(seqs) \o Flatten(Tail(seqs))

RoundWrites(params) ==
    Flatten([g \in DOMAIN params |->
                [r \in DOMAIN params[g].rounds |->
                    [gradeID |-> params[g].gradeID,
                     sequenceNo |-> params[g].rounds[r].round.sequenceNo,
                     provisionalDate |-> params[g].rounds[r].round.provisionalDate]]])

GameWrites(params) ==
    Flatten([g \in DOMAIN params |->
                Flatten([r \in DOMAIN params[g].rounds |-> params[g].rounds[r].games])])

CommittedRoundWrites ==
    Flatten([c \in DOMAIN committedParams |-> RoundWrites(committedParams[c])])

SameRound(a, b) == a.gradeID = b.gradeID /\ a.sequenceNo = b.sequenceNo

\* the running persist call was given the input of the call that committed last
Resubmission ==
    /\ committedParams # <<>>
    /\ committedParams[Len(committedParams)] = roundsParams
    /\ GameWrites(roundsParams) # <<>>

\* C6: a persist call given again the input of a committed call, game ids
\* included, does not fail on the stored ids, and the table never holds two
\* games of one id.
C6_ResubmissionIdempotent ==
    /\ Resubmission => persistError # "unique_violation"
    /\ \A j, k \in DOMAIN dbGames : dbGames[j].id = dbGames[k].id => j = k

\* C7: the table holds at most one round per (gradeID, sequenceNo), and that
\* round carries the date of the last committed upsert of its key.
C7_OneRoundPerKeyWithLatestDate ==
    /\ \A a, b \in dbRounds : SameRound(a, b) => a = b
    /\ \A w \in DOMAIN CommittedRoundWrites :
         (\A later \in DOMAIN CommittedRoundWrites :
              later > w => ~SameRound(CommittedRoundWrites[later], CommittedRoundWrites[w]))
         => \E r \in dbRounds :
               /\ SameRound(r, CommittedRoundWrites[w])
               /\ r.provisionalDate = CommittedRoundWrites[w].provisionalDate

\* two committed calls upserted one key with two dates
C7_Witness ==
    \E v, w \in DOMAIN CommittedRoundWrites :
        /\ v < w
        /\ SameRound(CommittedRoundWrites[v], CommittedRoundWrites[w])
        /\ CommittedRoundWrites[v].provisionalDate # CommittedRoundWrites[w].provisionalDate
        /\ Len(committedParams) = 2

\* ------------------------------------------------------------------------
\* Properties of row validation, continued (SpecRow)
\* ------------------------------------------------------------------------
\* the context holds a team of that name in the grade the row resolves to
RegisteredInGrade(row, name) ==
    \E t \in context.teams : t.name = name /\ t.gradeID = GradeOf(row).id

\* C11: for a row whose grade resolves, a home-team violation is reported
\* exactly when the context holds no team of that name in the resolved grade,
\* and likewise for the away team; each is reported once, both can be reported
\* for one row, and a team of that name in another grade does not count.
C11_TeamMembership ==
    pc = "rowDone" =>
        \A i \in 1..Len(fixtureRows) :
            LET row == fixtureRows[i]
            IN  Resolves(row) =>
                    /\ ErrorsAt(errors, i, "HomeTeamNotRegistered") =
                          IF RegisteredInGrade(row, row.homeTeam) THEN <<>>
                          ELSE <<BusinessErr("HomeTeamNotRegistered", i, row,
                                             <<row.homeTeam>>, 0)>>
                    /\ ErrorsAt(errors, i, "AwayTeamNotRegistered") =
                          IF RegisteredInGrade(row, row.awayTeam) THEN <<>>
                          ELSE <<BusinessErr("AwayTeamNotRegistered", i, row,
                                             <<row.awayTeam>>, 0)>>

\* a row of grade "C", which has no team: both violations are reported for
\* teams L and T, which are registered in two other grades
C11_Witness ==
    /\ pc = "rowDone"
    /\ Resolves(fixtureRows[1])
    /\ fixtureRows[1].homeTeam = <<"L">>
    /\ fixtureRows[1].awayTeam = <<"T">>
    /\ \E t \in context.teams : t.name = <<"L">>
    /\ \E t \in context.teams : t.name = <<"T">>
    /\ ErrorsAt(errors, 1, "HomeTeamNotRegistered") # <<>>
    /\ ErrorsAt(errors, 1, "AwayTeamNotRegistered") # <<>>

\* C12: for a row whose grade resolves, a round-bound violation naming the
\* row's round and the grade's bound is reported exactly when the row's round
\* is strictly greater than the grade's noOfRounds.
C12_RoundBound ==
    pc = "rowDone" =>
        \A i \in 1..Len(fixtureRows) :
            LET row == fixtureRows[i]
            IN  Resolves(row) =>
                    ErrorsAt(errors, i, "RoundExceedsMaximum") =
                        IF row.round > GradeOf(row).noOfRounds
                        THEN <<BusinessErr("RoundExceedsMaximum", i, row, <<>>,
                                           GradeOf(row).noOfRounds)>>
                        ELSE <<>>

\* ------------------------------------------------------------------------
\* Properties of handle and persist, continued (Spec)
\* ------------------------------------------------------------------------
\* C13: once the validation of an upload has returned, with the file read, it
\* has issued the three context lookups and no other store call, whatever the
\* rows of the upload.
C13_ExactlyThreeLookups ==
    (pc = "validated" /\ calls.failed # "s3") => calls.lookups = ContextLookups

\* C14: a lookup that fails while the validation context is loaded makes the
\* upload fail: no list of violations is returned for it.
C14_LookupFailureFailsUpload ==
    calls.failed = "lookup" =>
        /\ validationErrors = <<>>
        /\ outcome # "rejected"

\* the rounds roundsParams supplies for the grade
SuppliedRounds(gradeID) == roundsParams[RoundsFor(roundsParams, gradeID)].rounds

StoredRounds(gradeID) == {r \in dbRounds : r.gradeID = gradeID}

\* C15: the attributes computed for an upload give every grade of the upload
\* a noOfRounds equal to the number of rounds stored for that grade plus the
\* number of rounds supplied for it, whatever the rounds of the other grades.
C15_RoundCountIsAdditive ==
    pc = "getClient" =>
        /\ DOMAIN gradeAttributes = KeySet(roundsParams)
        /\ \A id \in KeySet(roundsParams) :
             gradeAttributes[id].noOfRounds
                 = Cardinality(StoredRounds(id)) + Len(SuppliedRounds(id))

\* an upload for two grades, one of which has a stored round and the other none
C15_Witness ==
    /\ pc = "getClient"
    /\ Len(roundsParams) = 2
    /\ \E id, other \in KeySet(roundsParams) :
         /\ StoredRounds(id) # {}
         /\ StoredRounds(other) = {}
         /\ gradeAttributes[id].noOfRounds = 2
         /\ gradeAttributes[other].noOfRounds = 1

\* C16: once a grade's startDate is set, no later step of any upload changes it.
C16_StartDateSticky ==
    [][\A g \in dbGrades :
           g.startDate # 0 => \E h \in dbGrades' : h.id = g.id /\ h.startDate = g.startDate]_vars

\* the round cells that denote a positive round number
PositiveRounds == {<<ToString(n)>> : n \in 1..9}
RoundNumber(cell) == CHOOSE n \in 1..9 : cell = <<ToString(n)>>

\* the row passes the format and business rules: its cells are filled, its
\* date is well formed and not before the processing time, its round is a
\* round of its grade, and its two teams are distinct teams of that grade
RowPassesAllRules(row, now) ==
    /\ row.homeTeam # <<>> /\ row.awayTeam # <<>> /\ row.homeTeam # row.awayTeam
    /\ " " \notin Range(row.gradeCode) \cup Range(row.homeTeam) \cup Range(row.awayTeam)
    /\ row.date # 0 /\ row.date >= now
    /\ row.round \in PositiveRounds
    /\ \E g \in dbGrades :
         /\ g.seasonID = SeasonID /\ g.code = row.gradeCode
         /\ RoundNumber(row.round) <= g.noOfRounds
         /\ \E t \in DbTeams : t.gradeID = g.id /\ t.name = row.homeTeam
         /\ \E t \in DbTeams : t.gradeID = g.id /\ t.name = row.awayTeam

\* every row passes, and no team plays two games of one round of one grade
UploadPassesAllRules(rows, now) ==
    /\ \A i \in DOMAIN rows : RowPassesAllRules(rows[i], now)
    /\ \A i, j \in DOMAIN rows :
         (i < j /\ rows[i].gradeCode = rows[j].gradeCode /\ rows[i].round = rows[j].round)
             => {rows[i].homeTeam, rows[i].awayTeam}
                    \cap {rows[j].homeTeam, rows[j].awayTeam} = {}

\* C17: for every upload whose rows all pass the format, business and
\* cross-row rules, an upload of zero rows included, validation returns no
\* violation and a non-empty accepted set, which goes on to processing.
C17_PassingUploadAccepted ==
    (pc = "validated" /\ calls.failed = "none" /\ UploadPassesAllRules(upload, today)) =>
        /\ validationErrors = <<>>
        /\ ParseAndValidateFile(upload, Len(upload)).fixtureRows # <<>>

\* the same for the uploads that hold a row
C17_PassingRowsAccepted ==
    (/\ pc = "validated" /\ calls.failed = "none" /\ upload # <<>>
     /\ UploadPassesAllRules(upload, today)) =>
        /\ validationErrors = <<>>
        /\ ParseAndValidateFile(upload, Len(upload)).fixtureRows # <<>>

\* ------------------------------------------------------------------------
\* persist of the graph store (interview-repository-layer.ts), for uploads
\* whose rounds hold no game
\* ------------------------------------------------------------------------
\* MERGE (g:Grade { id: $gradeID }): the node is created when none matches;
\* the created node has the id and nothing else
MergedGrade(grades, gradeID) ==
    IF \E g \in grades : g.id = gradeID THEN grades
    ELSE grades \cup {[id |-> gradeID, code |-> <<>>, seasonID |-> "",
                       noOfRounds |-> 0, startDate |-> 0]}

\* MERGE (g)-[:HAS_ROUND]->(r:Round { gradeID, sequenceNo }) SET
\* r.provisionalDate: the created node is given no id
MergedRound(rounds, gradeID, round) ==
    IF \E r \in rounds : r.gradeID = gradeID /\ r.sequenceNo = round.sequenceNo
    THEN {IF r.gradeID = gradeID /\ r.sequenceNo = round.sequenceNo
            THEN [r EXCEPT !.provisionalDate = round.provisionalDate]
            ELSE r : r \in rounds}
    ELSE rounds \cup {[id |-> Undefined, gradeID |-> gradeID,
                       sequenceNo |-> round.sequenceNo,
                       provisionalDate |-> round.provisionalDate]}

\* roundsParams for one or two of the grade ids "A", "g2" and "Z", the last of
\* which names no grade of the store
GraphGradeIDs == {<<"A">>, <<"g", "2">>, <<"Z">>}

GraphRoundsParamsInputs ==
    {<<>>}
    \cup {<<a>> : a \in UNION {GradeParamInputs(id, RoundParamInputs({})) : id \in GraphGradeIDs}}
    \cup {<<a, b>> : a \in GradeParamInputs(<<"A">>, RoundParamInputs({})),
                     b \in GradeParamInputs(<<"Z">>, RoundParamInputs({}))}
    \cup {<<b, a>> : a \in GradeParamInputs(<<"g", "2">>, RoundParamInputs({})),
                     b \in GradeParamInputs(<<"Z">>, RoundParamInputs({}))}

graphFrame ==
    <<gamesIdUnique, upload, fixtureRows, context, errors, today, validationErrors,
      roundsParams, lookups, gradeAttributes, roundID, collected, outcome, events,
      uploads, dbAtCall, txWrites>>

\* persist is called with the attributes calculateGradeAttributes computed
InitGraph ==
    /\ dbGrades \in {{GradeA(MaxRound)}, {GradeA(MaxRound), GradeB(MaxRound)}}
    /\ dbRounds = {}
    /\ dbGames = <<>>
    /\ gamesIdUnique = FALSE
    /\ upload = <<>>
    /\ fixtureRows = <<>>
    /\ context = [seasonID |-> SeasonID, grades |-> {}, teams |-> {}, existingFixtures |-> <<>>]
    /\ errors = <<>>
    /\ today = 0
    /\ validationErrors = <<>>
    /\ roundsParams \in GraphRoundsParamsInputs
    /\ lookups = [hasFixtureByGradeIDs |-> <<>>, existingGames |-> {}]
    /\ gradeAttributes = CalculateGradeAttributes(roundsParams, dbRounds)
    /\ txOpen = FALSE
    /\ txRounds = {}
    /\ txGames = <<>>
    /\ txGrades = {}
    /\ pos = [g |-> 0, r |-> 0, k |-> 0]
    /\ roundID = 0
    /\ collected = [gameIDs |-> <<>>, teamIDs |-> <<>>]
    /\ persistError = "none"
    /\ outcome = "none"
    /\ events = <<>>
    /\ uploads = 1
    /\ dbAtCall = <<dbGrades, dbRounds, dbGames>>
    /\ txWrites = 0
    /\ committedParams = <<>>
    /\ calls = NoCalls
    /\ pc = "graphBegin"

\* const transaction = session.beginTransaction()
GraphBeginTransaction ==
    /\ pc = "graphBegin"
    /\ txOpen' = TRUE
    /\ txRounds' = dbRounds
    /\ txGames' = dbGames
    /\ txGrades' = dbGrades
    /\ pos' = [g |-> 1, r |-> 1, k |-> 0]
    /\ pc' = "graphPersist"
    /\ UNCHANGED <<dbGrades, dbRounds, dbGames, graphFrame, persistError, historyVars>>

\* persistRound for a round without games: the two MERGEs
GraphPersistRound ==
    /\ pc = "graphPersist"
    /\ pos.g <= Len(roundsParams)
    /\ pos.r <= Len(CurrentGrade.rounds)
    /\ \/ /\ txGrades' = MergedGrade(txGrades, CurrentGrade.gradeID)
          /\ txRounds' = MergedRound(txRounds, CurrentGrade.gradeID, CurrentRound.round)
          /\ pos' = [pos EXCEPT !.r = pos.r + 1]
          /\ UNCHANGED <<pc, persistError>>
       \/ /\ persistError' = "write"
          /\ pc' = "graphRollback"
          /\ UNCHANGED <<txGrades, txRounds, pos>>
    /\ UNCHANGED <<dbGrades, dbRounds, dbGames, graphFrame, txOpen, txGames, historyVars>>

\* updateGradeAttributes: MATCH (g:Grade { id }) SET g.noOfRounds, g.startDate
GraphUpdateGradeAttributes ==
    /\ pc = "graphPersist"
    /\ pos.g <= Len(roundsParams)
    /\ pos.r > Len(CurrentGrade.rounds)
    /\ \/ /\ txGrades' = UpdatedGrades(txGrades, CurrentGrade.gradeID,
                                       gradeAttributes[CurrentGrade.gradeID])
          /\ pos' = [g |-> pos.g + 1, r |-> 1, k |-> 0]
          /\ UNCHANGED <<pc, persistError>>
       \/ /\ persistError' = "write"
          /\ pc' = "graphRollback"
          /\ UNCHANGED <<txGrades, pos>>
    /\ UNCHANGED <<dbGrades, dbRounds, dbGames, graphFrame, txOpen, txRounds, txGames,
                   historyVars>>

\* await transaction.commit()
GraphCommit ==
    /\ pc = "graphPersist"
    /\ pos.g > Len(roundsParams)
    /\ \/ /\ dbRounds' = txRounds
          /\ dbGames' = txGames
          /\ dbGrades' = txGrades
          /\ txOpen' = FALSE
          /\ txRounds' = {}
          /\ txGames' = <<>>
          /\ txGrades' = {}
          /\ committedParams' = Append(committedParams, roundsParams)
          /\ calls' = [calls EXCEPT !.commits = @ + 1]
          /\ pc' = "graphClose"
          /\ UNCHANGED persistError
       \/ /\ persistError' = "commit"
          /\ pc' = "graphRollback"
          /\ UNCHANGED <<dbGrades, dbRounds, dbGames, txVars, historyVars>>
    /\ UNCHANGED <<graphFrame, pos>>

\* catch: await transaction.rollback()
GraphRollback ==
    /\ pc = "graphRollback"
    /\ txOpen' = FALSE
    /\ txRounds' = {}
    /\ txGames' = <<>>
    /\ txGrades' = {}
    /\ \/ calls' = [calls EXCEPT !.rollbacks = @ + 1]
       \/ UNCHANGED calls
    /\ pc' = "graphClose"
    /\ UNCHANGED <<dbGrades, dbRounds, dbGames, graphFrame, pos, persistError,
                   committedParams>>

\* finally: await session.close()
GraphClose ==
    /\ pc = "graphClose"
    /\ calls' = [calls EXCEPT !.releases = @ + 1]
    /\ pc' = "graphDone"
    /\ UNCHANGED <<dbGrades, dbRounds, dbGames, graphFrame, txVars, pos, persistError,
                   committedParams>>

NextGraph ==
    \/ GraphBeginTransaction
    \/ GraphPersistRound
    \/ GraphUpdateGradeAttributes
    \/ GraphCommit
    \/ GraphRollback
    \/ GraphClose

SpecGraph == InitGraph /\ [][NextGraph]_vars

\* C18: after a persist call, committed or rolled back, the store holds the
\* grade ids it held before the call, also when roundsParams names a grade the
\* store does not hold.
C18_NoGradeCreated ==
    pc = "graphDone" => {g.id : g \in dbGrades} = {g.id : g \in dbAtCall[1]}

\* ------------------------------------------------------------------------
\* Properties of row validation: the cost of a row (SpecRow)
\* ------------------------------------------------------------------------
\* C19: the validation of a row whose grade resolves looks its two teams up
\* in an index, so the teams it inspects are at most the two it names,
\* whatever the number of teams of the context.
C19_TeamsResolvedByIndex ==
    pc = "rowDone" =>
        \A i \in 1..Len(fixtureRows) :
            Resolves(fixtureRows[i]) => TeamsInspected(context) <= 2

\* ------------------------------------------------------------------------
\* Properties of the persist transaction (Spec)
\* ------------------------------------------------------------------------
\* persist acquired a connection and has returned or thrown
PersistReturned ==
    /\ pc \in {"events", "throw", "done"}
    /\ dbAtCall # <<>>
    /\ persistError # "getClient"

AnyFulfilled(settled, names) == \E i \in 1..Len(names) : settled[names[i]] = "fulfilled"

\* await Promise.all([...]) resumes with the results once every promise is fulfilled
AllFulfilled(settled, names) == \A i \in 1..Len(names) : settled[names[i]] = "fulfilled"

\* await Promise.all([...]) throws once one promise is rejected
AnyRejected(settled, names) == \E i \in 1..Len(names) : settled[names[i]] = "rejected"

\* the promises of `names` are created, all ahead of the await
Issued(settled, names) ==
    [l \in DOMAIN settled |-> IF l \in Range(names) THEN "pending" ELSE settled[l]]

\* rows handed to validateBusinessRules
JoinRowInputs ==
    {r \in RowInputs : r.gradeCode \in {<<"A">>, <<"Z">>} /\ r.awayTeam = <<"T">> /\ r.round = 1}

InitJoin ==
    /\ dbGrades = {GradeA(MaxRound), GradeB(MaxRound)}
    /\ \E withFixtures \in SUBSET {GradeA(0)} :
         /\ dbRounds = RoundsOf(withFixtures)
         /\ dbGames = GamesOf(withFixtures)
    /\ fixtureRows \in SeqsUpTo(JoinRowInputs, 1)
    /\ today \in 1..MaxDay
    /\ pc = "joinLoad"
    /\ errors = <<>>
    /\ gamesIdUnique = TRUE
    /\ upload = <<>>
    /\ context = [seasonID |-> SeasonID, grades |-> {}, teams |-> {}, existingFixtures |-> <<>>]
    /\ validationErrors = <<>>
    /\ HandlerIdle

joinFrame == <<storeVars, upload, fixtureRows, today, txVars, persistVars, uploads,
               committedParams>>

\* loadValidationContext calls the three repositories, then awaits Promise.all
IssueContextLookups ==
    /\ pc = "joinLoad"
    /\ calls' = [calls EXCEPT !.lookups = @ \o ContextLookups,
                              !.settled = Issued(@, ContextLookups)]
    /\ pc' = "joinContext"
    /\ UNCHANGED <<joinFrame, context, errors, validationErrors, processVars, outcome, events>>

\* the promise of one lookup settles: its query returned or failed
SettleLookup ==
    /\ \E l \in DOMAIN calls.settled :
         /\ calls.settled[l] = "pending"
         /\ \E how \in {"fulfilled", "rejected"} :
              calls' = [calls EXCEPT !.settled[l] = how]
    /\ UNCHANGED <<joinFrame, pc, context, errors, validationErrors, processVars, outcome,
                   events>>

\* the await of loadValidationContext resumes: with the context, or with the
\* rejection that validateS3File catches and returns as its one error
ContextJoin ==
    /\ pc = "joinContext"
    /\ \/ /\ AllFulfilled(calls.settled, ContextLookups)
          /\ context' = LoadValidationContext(dbGrades, dbRounds, dbGames, SeasonID, fixtureRows)
          /\ pc' = "joinValidate"
          /\ UNCHANGED <<validationErrors, calls, outcome>>
       \/ /\ AnyRejected(calls.settled, ContextLookups)
          /\ validationErrors' = <<FailedToAccess>>
          /\ calls' = [calls EXCEPT !.failed = "lookup"]
          /\ outcome' = "rejected"
          /\ pc' = "done"
          /\ UNCHANGED context
    /\ UNCHANGED <<joinFrame, errors, processVars, events>>

\* the loop over the rows and the cross-row rules; handle returns the errors
\* if there is one
ValidateWithContext ==
    /\ pc = "joinValidate"
    /\ errors' = ValidateBusinessRules(fixtureRows, context, today)
    /\ validationErrors' = errors'
    /\ IF RejectsUpload(errors')
         THEN /\ outcome' = "rejected"
              /\ pc' = "done"
         ELSE /\ pc' = "joinProcess"
              /\ UNCHANGED outcome
    /\ UNCHANGED <<joinFrame, context, processVars, events, calls>>

\* processFixtureUpload calls the three repositories, then awaits Promise.all
IssueUploadLookups ==
    /\ pc = "joinProcess"
    /\ roundsParams' \in {p \in RoundsParamsInputs : Len(p) <= 1}
    /\ calls' = [calls EXCEPT !.lookups = @ \o UploadLookups,
                              !.settled = Issued(@, UploadLookups)]
    /\ pc' = "joinLookups"
    /\ UNCHANGED <<joinFrame, context, errors, validationErrors, lookups, gradeAttributes,
                   outcome, events>>

\* the await of processFixtureUpload resumes: with the three results, or with
\* the rejection that handle catches
UploadJoin ==
    /\ pc = "joinLookups"
    /\ \/ /\ AllFulfilled(calls.settled, UploadLookups)
          /\ lookups' =
                 [hasFixtureByGradeIDs |->
                      HasFixtures(dbGrades, dbRounds, dbGames, KeySet(roundsParams)),
                  existingGames |->
                      FindGamesByGradeIDs(dbRounds, dbGames, KeySet(roundsParams))]
          /\ pc' = "calculate"
       \/ /\ AnyRejected(calls.settled, UploadLookups)
          /\ pc' = "throw"
          /\ UNCHANGED lookups
    /\ UNCHANGED <<joinFrame, context, errors, validationErrors, roundsParams,
                   gradeAttributes, outcome, events, calls>>

NextJoin ==
    \/ IssueContextLookups
    \/ SettleLookup
    \/ ContextJoin
    \/ ValidateWithContext
    \/ IssueUploadLookups
    \/ UploadJoin
    \/ CalculateAttributes
    \/ Throw

SpecJoin == InitJoin /\ [][NextJoin]_vars

\* the rows have been given to validation (or validation is about to run)
RowsValidationStarted == pc \in {"joinValidate", "joinProcess", "joinLookups", "calculate",
                                 "getClient"}
\* calculateGradeAttributes, and persist after it, has been started
AttributesStarted == pc \in {"calculate", "getClient"}

\* C21: no row is validated before the three context lookups have all
\* completed, and neither calculateGradeAttributes nor persist starts before
\* the fixture-existence, existing-games and competition lookups have all
\* completed; when one of the concurrent lookups has failed, the stage that
\* depends on it has not started and never starts.
C21_JoinBeforeProceed ==
    /\ RowsValidationStarted => AllFulfilled(calls.settled, ContextLookups)
    /\ errors # <<>> => AllFulfilled(calls.settled, ContextLookups)
    /\ AttributesStarted \/ gradeAttributes # <<>> =>
           AllFulfilled(calls.settled, UploadLookups)
    /\ AnyRejected(calls.settled, ContextLookups) =>
           ~RowsValidationStarted /\ roundsParams = <<>>
    /\ AnyRejected(calls.settled, UploadLookups) =>
           ~AttributesStarted /\ gradeAttributes = <<>>

\* all six lookups are fulfilled, the row has been validated and the
\* attributes are about to be calculated
C21_Witness ==
    /\ pc = "calculate"
    /\ AllFulfilled(calls.settled, ContextLookups)
    /\ AllFulfilled(calls.settled, UploadLookups)
    /\ fixtureRows # <<>>
    /\ roundsParams # <<>>

\* a rejected lookup ended the upload while its sibling lookups were in flight
C21_RejectedWhilePending ==
    /\ pc = "done"
    /\ outcome = "failed"
    /\ AnyRejected(calls.settled, UploadLookups)
    /\ \E l \in Range(UploadLookups) : calls.settled[l] = "pending"

\* ------------------------------------------------------------------------
\* Two handle calls for one grade with no serialization between them (SpecRace)
\* ------------------------------------------------------------------------
\* The per-call variables hold one value for each of the two calls.  A
\* transaction sees the committed tables and its own writes (READ COMMITTED);
\* its writes are kept as the statements it has executed and reach the tables
\* at COMMIT.  A statement that writes a row another open transaction has
\* written waits for that transaction to end.
Uploaders == {1, 2}

\* roundsParams of a call: rounds of grade "A", with no game
RaceParamsInputs == {<<a>> : a \in GradeParamInputs(<<"A">>, RoundParamInputs({}))}

RaceGrade == <<"A">>

InitRace ==
    /\ \E stored \in SUBSET {1} :
         /\ dbRounds = {[id |-> n, gradeID |-> RaceGrade, sequenceNo |-> n,
                         provisionalDate |-> 1] : n \in stored}
         /\ dbGrades = {GradeA(Cardinality(stored)), GradeB(0)}
    /\ dbGames = <<>>
    /\ dbAtCall = <<dbGrades, dbRounds, dbGames>>
    /\ gamesIdUnique = TRUE
    /\ pc = [u \in Uploaders |-> "calculate"]
    /\ roundsParams \in [Uploaders -> RaceParamsInputs]
    /\ lookups = [u \in Uploaders |-> <<>>]
    /\ gradeAttributes = [u \in Uploaders |-> <<>>]
    /\ txOpen = [u \in Uploaders |-> FALSE]
    /\ txRounds = [u \in Uploaders |-> <<>>]
    /\ txGames = [u \in Uploaders |-> <<>>]
    /\ txGrades = [u \in Uploaders |-> <<>>]
    /\ pos = [u \in Uploaders |-> 1]
    /\ persistError = [u \in Uploaders |-> "none"]
    /\ committedParams = <<>>
    /\ upload = <<>>
    /\ fixtureRows = <<>>
    /\ context = [seasonID |-> SeasonID, grades |-> {}, teams |-> {}, existingFixtures |-> <<>>]
    /\ errors = <<>>
    /\ today = 0
    /\ validationErrors = <<>>
    /\ roundID = 0
    /\ collected = [gameIDs |-> <<>>, teamIDs |-> <<>>]
    /\ outcome = "none"
    /\ events = <<>>
    /\ uploads = 0
    /\ txWrites = 0
    /\ calls = NoCalls

raceFrame ==
    <<gamesIdUnique, validationVars, roundsParams, txGames, roundID, collected, dbAtCall,
      txWrites, resultVars, calls>>

\* the rounds of the call's roundsParams
RaceRounds(u) == roundsParams[u][1].rounds

\* the rounds table after the round upserts `writes`, in order
RECURSIVE RoundsAfter(_, _)
RoundsAfter(rounds, writes) ==
    IF writes = <<>> THEN rounds
    ELSE UpsertedRound(RoundsAfter(rounds, SubSeq(writes, 1, Len(writes) - 1)),
                       RaceGrade, writes[Len(writes)].round)

\* calculateGradeAttributes of call u: roundRepo.findByGradeIDs reads the
\* committed rounds, ahead of persist and outside its transaction
RaceCalculate(u) ==
    /\ pc[u] = "calculate"
    /\ lookups' = [lookups EXCEPT ![u] = FindRoundsByGradeID(dbRounds, RaceGrade)]
    /\ gradeAttributes' =
           [gradeAttributes EXCEPT ![u] = CalculateGradeAttributes(roundsParams[u], dbRounds)]
    /\ pc' = [pc EXCEPT ![u] = "begin"]
    /\ UNCHANGED <<raceFrame, dbGrades, dbRounds, dbGames, txOpen, txRounds, txGrades, pos,
                   persistError, committedParams>>

\* getClient and BEGIN of call u
RaceBegin(u) ==
    /\ pc[u] = "begin"
    /\ txOpen' = [txOpen EXCEPT ![u] = TRUE]
    /\ pc' = [pc EXCEPT ![u] = "persist"]
    /\ UNCHANGED <<raceFrame, dbGrades, dbRounds, dbGames, lookups, gradeAttributes, txRounds,
                   txGrades, pos, persistError, committedParams>>

\* the round upsert of persistRound; it waits while another open transaction
\* has written the round of the same (grade_id, sequence_no)
RaceUpsertRound(u) ==
    /\ pc[u] = "persist"
    /\ pos[u] <= Len(RaceRounds(u))
    /\ \A v \in Uploaders \ {u} :
         \A k \in 1..Len(txRounds[v]) :
             txRounds[v][k].round.sequenceNo # RaceRounds(u)[pos[u]].round.sequenceNo
    /\ txRounds' = [txRounds EXCEPT ![u] = Append(@, RaceRounds(u)[pos[u]])]
    /\ pos' = [pos EXCEPT ![u] = @ + 1]
    /\ UNCHANGED <<raceFrame, dbGrades, dbRounds, dbGames, pc, lookups, gradeAttributes,
                   txOpen, txGrades, persistError, committedParams>>

\* mutant: the rounds are counted by the UPDATE itself, from the rounds the
\* transaction sees
RaceUpdateGradeAttributesRecounting(u) ==
    /\ pc[u] = "persist"
    /\ pos[u] > Len(RaceRounds(u))
    /\ \A v \in Uploaders \ {u} : txGrades[v] = <<>>
    /\ txGrades' =
           [txGrades EXCEPT ![u] =
               <<[gradeAttributes[u][RaceGrade] EXCEPT !.noOfRounds =
                     Cardinality({r \in RoundsAfter(dbRounds, txRounds[u]) :
                                      r.gradeID = RaceGrade})]>>]
    /\ pc' = [pc EXCEPT ![u] = "commit"]
    /\ UNCHANGED <<raceFrame, dbGrades, dbRounds, dbGames, lookups, gradeAttributes, txOpen,
                   txRounds, pos, persistError, committedParams>>

\* updateGradeAttributes, after the grade's last round: the UPDATE writes the
\* attributes calculated ahead of persist; it waits while another open
\* transaction has updated the grade's row
RaceUpdateGradeAttributes(u) ==
    /\ pc[u] = "persist"
    /\ pos[u] > Len(RaceRounds(u))
    /\ \A v \in Uploaders \ {u} : txGrades[v] = <<>>
    /\ txGrades' = [txGrades EXCEPT ![u] = <<gradeAttributes[u][RaceGrade]>>]
    /\ pc' = [pc EXCEPT ![u] = "commit"]
    /\ UNCHANGED <<raceFrame, dbGrades, dbRounds, dbGames, lookups, gradeAttributes, txOpen,
                   txRounds, pos, persistError, committedParams>>

\* COMMIT of call u: its writes reach the tables
RaceCommit(u) ==
    /\ pc[u] = "commit"
    /\ dbRounds' = RoundsAfter(dbRounds, txRounds[u])
    /\ dbGrades' = UpdatedGrades(dbGrades, RaceGrade, txGrades[u][1])
    /\ txOpen' = [txOpen EXCEPT ![u] = FALSE]
    /\ txRounds' = [txRounds EXCEPT ![u] = <<>>]
    /\ txGrades' = [txGrades EXCEPT ![u] = <<>>]
    /\ committedParams' = Append(committedParams, roundsParams[u])
    /\ pc' = [pc EXCEPT ![u] = "done"]
    /\ UNCHANGED <<raceFrame, dbGames, lookups, gradeAttributes, pos, persistError>>

\* a statement of call u fails: ROLLBACK, and handle throws
RaceRollback(u) ==
    /\ pc[u] \in {"persist", "commit"}
    /\ txOpen' = [txOpen EXCEPT ![u] = FALSE]
    /\ txRounds' = [txRounds EXCEPT ![u] = <<>>]
    /\ txGrades' = [txGrades EXCEPT ![u] = <<>>]
    /\ persistError' = [persistError EXCEPT ![u] = "write"]
    /\ pc' = [pc EXCEPT ![u] = "failed"]
    /\ UNCHANGED <<raceFrame, dbGrades, dbRounds, dbGames, lookups, gradeAttributes, pos,
                   committedParams>>

NextRace ==
    \E u \in Uploaders :
        \/ RaceCalculate(u)
        \/ RaceBegin(u)
        \/ RaceUpsertRound(u)
        \/ RaceUpdateGradeAttributes(u)
        \/ RaceCommit(u)
        \/ RaceRollback(u)

SpecRace == InitRace /\ [][NextRace]_vars

\* the rows of the rounds table that belong to the grade
RoundRecords(rounds) == {r \in rounds : r.gradeID = RaceGrade}

\* the stored noOfRounds of the grade
StoredNoOfRounds == (CHOOSE g \in dbGrades : g.id = RaceGrade).noOfRounds

\* the noOfRounds the grade has after the call with `first` and then the
\* call with `second` have run one after the other on the tables `rounds`
SerialNoOfRounds(rounds, first, second) ==
    Cardinality(RoundRecords(RoundsAfter(rounds, first[1].rounds))) + Len(second[1].rounds)

\* both calls have committed, and each calculated its attributes from the
\* rounds stored before either committed
BothCommittedFromOneSnapshot ==
    /\ Len(committedParams) = 2
    /\ \A u \in Uploaders : lookups[u] = FindRoundsByGradeID(dbAtCall[2], RaceGrade)

\* C22: when two uploads for one grade both calculate noOfRounds from the
\* rounds stored before either commits, and both commit, the grade's
\* noOfRounds is the snapshot's number of rounds plus the rounds supplied by
\* the upload that committed last: the rounds of the upload that committed
\* first are not counted, and when that upload created a round record the
\* value is less than the one the serial order (first, last) produces.
C22_LostUpdate ==
    BothCommittedFromOneSnapshot =>
        LET first == committedParams[1]
            last  == committedParams[2]
            before == RoundRecords(dbAtCall[2])
        IN  /\ StoredNoOfRounds = Cardinality(before) + Len(last[1].rounds)
            /\ Cardinality(RoundRecords(RoundsAfter(dbAtCall[2], first[1].rounds)))
                   > Cardinality(before)
                 => StoredNoOfRounds < SerialNoOfRounds(dbAtCall[2], first, last)

\* the update is lost: the final noOfRounds is the value of neither serial order
C22_Witness ==
    /\ BothCommittedFromOneSnapshot
    /\ StoredNoOfRounds # SerialNoOfRounds(dbAtCall[2], committedParams[1], committedParams[2])
    /\ StoredNoOfRounds # SerialNoOfRounds(dbAtCall[2], committedParams[2], committedParams[1])

\* ------------------------------------------------------------------------
\* Properties of the stored round count (Spec)
\* ------------------------------------------------------------------------
\* handle has returned its events: the upload was persisted and committed
UploadSucceeded == pc = "done" /\ outcome = "accepted"

StoredGrade(gradeID) == CHOOSE g \in dbGrades : g.id = gradeID

\* the round records the grade had when persist was called
RoundsAtCall(gradeID) == {r \in dbAtCall[2] : r.gradeID = gradeID}

\* a round supplied for the grade has the sequenceNo of a round it had already
ResuppliesRound(gradeID) ==
    \E k \in 1..Len(SuppliedRounds(gradeID)) :
        \E r \in RoundsAtCall(gradeID) :
            r.sequenceNo = SuppliedRounds(gradeID)[k].round.sequenceNo

\* C23 as claimed: after a successful upload, the stored noOfRounds of each
\* grade of the upload equals the number of round records stored for the
\* grade, so that resubmitting existing rounds does not raise it.
C23_RoundCountEqualsRecords ==
    UploadSucceeded =>
        \A id \in KeySet(roundsParams) :
            StoredGrade(id).noOfRounds = Cardinality(StoredRounds(id))

\* C23 as amended: after a successful upload, the stored noOfRounds of each
\* grade of the upload is the number of round records the grade had before
\* the upload plus the number of rounds the upload supplied for it; it is
\* never less than the number of round records stored for the grade, and it
\* exceeds that number when a supplied round has the sequenceNo of a round
\* stored already, which is upserted and adds no record.
C23_RoundCountIsRecordsPlusSupplied ==
    UploadSucceeded =>
        \A id \in KeySet(roundsParams) :
            /\ StoredGrade(id).noOfRounds
                   = Cardinality(RoundsAtCall(id)) + Len(SuppliedRounds(id))
            /\ StoredGrade(id).noOfRounds >= Cardinality(StoredRounds(id))
            /\ ResuppliesRound(id) =>
                   StoredGrade(id).noOfRounds > Cardinality(StoredRounds(id))

\* a second upload resubmitted the one round of a grade: one record, noOfRounds 2
C23_Witness ==
    /\ UploadSucceeded
    /\ \E id \in KeySet(roundsParams) :
         /\ ResuppliesRound(id)
         /\ Cardinality(StoredRounds(id)) = 1
         /\ StoredGrade(id).noOfRounds = 2

\* ------------------------------------------------------------------------
\* Properties of the past-date rule (SpecRow)
\* ------------------------------------------------------------------------
\* C24: the past-date rule consults the fixture-existence flag of the row's
\* own grade, also for a grade whose id differs from its code: a past-dated
\* row of such a grade yields the past-date violation exactly when the grade
\* has no existing fixture.
C24_OwnGradeFlagConsulted ==
    pc = "rowDone" =>
        \A i \in 1..Len(fixtureRows) :
            LET row == fixtureRows[i]
            IN  (/\ Resolves(row)
                 /\ GradeOf(row).id # GradeOf(row).code
                 /\ row.date < today) =>
                    ((ErrorsAt(errors, i, "PastDate") # <<>>)
                        <=> ~GradeHasGame(GradeOf(row), dbRounds, dbGames))

\* ------------------------------------------------------------------------
\* Soundness of cross-row detection (SpecCross)
\* ------------------------------------------------------------------------
\* C25: a duplicate-game violation is reported for a row only if an earlier
\* row has the identical (gradeCode, homeTeam, awayTeam, round), and a
\* double-booking violation only if an earlier row has the same gradeCode,
\* the same round and the team the violation names, also when grade codes or
\* team names contain the '-' of the composite keys.
C25_CrossRowSound ==
    pc = "crossDone" =>
        \A k \in 1..Len(errors) :
            LET e == errors[k]
            IN  /\ e.rule = "DuplicateGame" =>
                      \E j \in 1..(e.at - 1) : SameGame(fixtureRows[j], fixtureRows[e.at])
                /\ e.rule = "DoubleBooking" =>
                      BookedEarlier(fixtureRows, e.at, e.teams[1])

\* ------------------------------------------------------------------------
\* File-format validation applied to bounded files (SpecParse)
\* ------------------------------------------------------------------------
\* round cells: positive, zero, negative, not numeric, fractional, missing,
\* padded, and digits followed by a letter
RoundCells ==
    {<<"1">>, <<"2">>, <<"0">>, <<"-", "1">>, <<"x">>, <<"1", ".", "5">>, <<>>,
     <<" ", "2">>, <<"1", "x">>}

\* rows the decoder can yield
ParseRowInputs ==
    [gradeCode : {<<"A">>, <<" ">>},
     homeTeam : {<<"T">>, <<" ", "T">>, <<"L">>},
     awayTeam : {<<"T">>, <<"T", " ">>},
     date : {0, MaxDay},
     round : RoundCells]

InitParse ==
    /\ upload \in SeqsUpTo(ParseRowInputs, MaxRawRows)
    /\ pc = "parse"
    /\ fixtureRows = <<>>
    /\ errors = <<>>
    /\ dbGrades = {}
    /\ dbRounds = {}
    /\ dbGames = <<>>
    /\ gamesIdUnique = TRUE
    /\ context = [seasonID |-> SeasonID, grades |-> {}, teams |-> {}, existingFixtures |-> <<>>]
    /\ today = 0
    /\ validationErrors = <<>>
    /\ HandlerIdle

\* parseAndValidateFile
ParseFile ==
    /\ pc = "parse"
    /\ fixtureRows' = ParseAndValidateFile(upload, Len(upload)).fixtureRows
    /\ errors' = ParseAndValidateFile(upload, Len(upload)).formatErrors
    /\ pc' = "parsed"
    /\ UNCHANGED <<storeVars, upload, context, today, validationErrors, processVars, txVars,
                   persistVars, resultVars, historyVars>>

NextParse == ParseFile

SpecParse == InitParse /\ [][NextParse]_vars

\* C26: every row that passes format validation and is passed on to
\* business-rule validation has a home team name different from its away
\* team name, the names compared being the trimmed names of the accepted row.
C26_NoSelfPlayAccepted ==
    (pc = "parsed" /\ errors = <<>>) =>
        \A i \in 1..Len(fixtureRows) : fixtureRows[i].homeTeam # fixtureRows[i].awayTeam

\* the cell is the decimal literal of a positive integer
IsPositiveIntegerCell(cell) ==
    /\ Trim(cell) # <<>>
    /\ Range(Trim(cell)) \subseteq Digits
    /\ DigitsValue(Trim(cell)) >= 1

\* C27: a round cell that is missing, zero, negative, non-numeric or
\* fractional yields a FileFormat violation for its row, and every accepted
\* row carries a round that is a positive integer.
C27_RoundIsPositiveInteger ==
    pc = "parsed" =>
        /\ \A n \in 1..Len(upload) :
             ~IsPositiveIntegerCell(upload[n].round) =>
                 ErrorsAt(errors, n + 1, "RoundNotPositive") # <<>>
        /\ \A i \in 1..Len(fixtureRows) : fixtureRows[i].round >= 1

\* ------------------------------------------------------------------------
\* Order of the statements of persist (Spec)
\* ------------------------------------------------------------------------
\* position of the grade among the keys of roundsParams
GradeIndex(gradeID) == RoundsFor(roundsParams, gradeID)

\* the games supplied for the grade, over all its rounds
SuppliedGameCount(gradeID) ==
    Len(Flatten([k \in 1..Len(SuppliedRounds(gradeID)) |-> SuppliedRounds(gradeID)[k].games]))

\* the statements among the first n of the log with this op and grade
StatementsBefore(log, n, op, gradeID) ==
    {i \in 1..(n - 1) : log[i].op = op /\ log[i].gradeID = gradeID}

PersistSucceeded == pc = "events"

\* the games this persist call added to the table, in the order of their inserts
InsertedGames == SubSeq(dbGames, Len(dbAtCall[3]) + 1, Len(dbGames))

\* the home and away team ids of the supplied games
SuppliedTeamIDs ==
    UNION {{GameWrites(roundsParams)[k].homeTeamID, GameWrites(roundsParams)[k].awayTeamID} :
              k \in 1..Len(GameWrites(roundsParams))}

\* C29: persist returns only when its COMMIT succeeded, and then gradeIDs are
\* the keys of roundsParams, teamIDs hold the home and away team id of every
\* supplied game exactly once, and gameIDs hold one entry per inserted game,
\* in insertion order.
C29_ReturnedIdentifiers ==
    PersistSucceeded =>
        /\ calls.commits = 1
        /\ persistError = "none"
        /\ committedParams[Len(committedParams)] = roundsParams
        /\ PersistResult.gradeIDs = [i \in 1..Len(roundsParams) |-> roundsParams[i].gradeID]
        /\ Range(PersistResult.teamIDs) = SuppliedTeamIDs
        /\ Cardinality(Range(PersistResult.teamIDs)) = Len(PersistResult.teamIDs)
        /\ PersistResult.gameIDs = [k \in 1..Len(InsertedGames) |-> InsertedGames[k].id]
        /\ Len(InsertedGames) = Len(GameWrites(roundsParams))

\* two grades whose games share their home team: four team ids collected,
\* three returned
C29_Witness ==
    /\ PersistSucceeded
    /\ Len(roundsParams) = 2
    /\ Len(collected.teamIDs) = 4
    /\ Len(PersistResult.teamIDs) = 3
    /\ Len(PersistResult.gameIDs) = 2

\* ------------------------------------------------------------------------
\* Events and the aggregate failure of handle (Spec)
\* ------------------------------------------------------------------------
\* the grade owned a game when this upload's persist was called
HadFixtures(gradeID) ==
    \E g \in dbAtCall[1] : g.id = gradeID /\ GradeHasGame(g, dbAtCall[2], dbAtCall[3])

EventsOf(type, gradeID) == SelectSeq(events, LAMBDA e : e.type = type /\ e.gradeID = gradeID)

\* events are returned only after the COMMIT of persist, and a successful
\* upload emits for every persisted grade one CalculateLadder event and one
\* fixture event, FixtureUpdated exactly when the grade had fixtures before
\* this upload's persist
EventsFollowCommit ==
    /\ events # <<>> => calls.commits = 1 /\ outcome = "accepted"
    /\ UploadSucceeded =>
           \A id \in KeySet(roundsParams) :
               /\ Len(EventsOf("CalculateLadder", id)) = 1
               /\ Len(EventsOf("FixtureUpdated", id)) + Len(EventsOf("FixtureCreated", id)) = 1
               /\ Len(EventsOf("FixtureUpdated", id)) = 1 <=> HadFixtures(id)

\* handle has ended after a statement of persist, or a lookup of
\* processFixtureUpload, failed
ProcessingFailed ==
    /\ pc = "done"
    /\ validationErrors = <<>>
    /\ \/ persistError # "none"
       \/ calls.commits = 0

\* C30: handle returns events only after persist has committed; when
\* persistence or any lookup ahead of it fails, handle throws 'Fixture upload
\* failed' and returns no event; on success it emits for every persisted
\* grade one CalculateLadder event and one fixture event, FixtureUpdated
\* exactly when the grade had fixtures before this upload's persist.
C30_EventsFollowCommit ==
    /\ EventsFollowCommit
    /\ ProcessingFailed => outcome = "failed" /\ events = <<>>
    /\ (pc = "done" /\ calls.failed = "lookup") => outcome = "failed" /\ events = <<>>

\* the same, for the failures that follow validation: those of the lookups of
\* processFixtureUpload and calculateGradeAttributes and of persist
C30_EventsFollowCommitAfterValidation ==
    /\ EventsFollowCommit
    /\ ProcessingFailed => outcome = "failed" /\ events = <<>>

\* a grade with fixtures and a grade without were persisted in one upload
C30_BothFixtureEvents ==
    /\ UploadSucceeded
    /\ \E id, other \in KeySet(roundsParams) :
         /\ HadFixtures(id)
         /\ ~HadFixtures(other)
         /\ Len(EventsOf("FixtureUpdated", id)) = 1
         /\ Len(EventsOf("FixtureCreated", other)) = 1

====
